---- MODULE Spec2Model ----
\* Verification model of the latticefold core: the Fiat-Shamir transcript, the
\* multilinear sumcheck (utils/sumcheck.rs) and the folding prover / verifier
\* (nifs/folding.rs).  Ring elements in NTT form are modelled as elements of the
\* prime field Z_Q, coefficient-form short challenges as integers in {-1,0,1}.
EXTENDS Integers, Sequences, FiniteSets, TLC

VARIABLES pc,            \* position of the session
          config,        \* TranscriptConfig shared by prover and verifier
          ccs,           \* CCS shape [m, n, l, s, t]
          cm_i_s,        \* the LCCCS instances handed to prove
          w_s,           \* the witnesses handed to prove (f_hat is taken by prove)
          mz_mles,       \* Mz MLE tables, one group per instance
          poly,          \* input of the stand-alone sumcheck
          transcript,    \* the prover's transcript
          v_transcript,  \* the verifier's transcript
          prove_out,     \* what prove / prove_as_subprotocol returned
          v_in,          \* what the verifier was handed
          verify_out,    \* what verify / verify_as_subprotocol returned
          call,          \* a library operation and its arguments
          ret            \* what the library operation returned

vars == <<pc, config, ccs, cm_i_s, w_s, mz_mles, poly, transcript, v_transcript,
          prove_out, v_in, verify_out, call, ret>>

\* the variables of the protocol sessions, and those of the library calls
session_vars == <<config, ccs, cm_i_s, w_s, mz_mles, poly, transcript, v_transcript,
                  prove_out, v_in, verify_out>>
lib_vars == <<call, ret>>
NoCall == [op |-> "none"]

-----------------------------------------------------------------------------
\* Bounds of the model
NumConfigs == 3      \* transcript configurations tried
MaxVars == 2         \* largest number of sumcheck variables
MaxSeed == 2         \* seeds for the generated MLE tables

\* Program constants
Q == 7               \* modulus of the ring (scaled down)
SpongeMod == 31      \* size of the sponge state space (scaled down)
K == 1               \* DecompositionParams::K
L == 2               \* DecompositionParams::L
B_SMALL == 2         \* DecompositionParams::B_SMALL
E == 1               \* extension degree dim(CR) / dim(NTT)
T == 2               \* ccs.t: Mz MLEs per instance

-----------------------------------------------------------------------------
\* Ring arithmetic (NTT form, width Q)
Norm(a) == ((a % Q) + Q) % Q
FAdd(a, b) == Norm(a + b)
FSub(a, b) == Norm(a - b)
FMul(a, b) == Norm(a * b)
FInv(a) == CHOOSE b \in 1..(Q - 1) : FMul(a, b) = 1
\* NTT::from(u128)
FromInt(x) == Norm(x)
\* CRT map of a coefficient-form element to NTT form
crt(c) == Norm(c)

RECURSIVE Pow2(_)
Pow2(n) == IF n = 0 THEN 1 ELSE 2 * Pow2(n - 1)

RECURSIVE SumSeq(_)
SumSeq(s) == IF s = <<>> THEN 0 ELSE FAdd(Head(s), SumSeq(Tail(s)))

RECURSIVE ProdSeq(_)
ProdSeq(s) == IF s = <<>> THEN 1 ELSE FMul(Head(s), ProdSeq(Tail(s)))

RECURSIVE Flatten(_)
Flatten(ss) == IF ss = <<>> THEN <<>> ELSE Head(ss) \o Flatten(Tail(ss))

\* the sum of a sequence of integers, not reduced
RECURSIVE SumSeq0(_)
SumSeq0(s) == IF s = <<>> THEN 0 ELSE Head(s) + SumSeq0(Tail(s))

Min(a, b) == IF a < b THEN a ELSE b
Max(a, b) == IF a > b THEN a ELSE b

-----------------------------------------------------------------------------
\* Dense multilinear extensions: a table of 2^n values, variable 1 is the
\* lowest bit of the index.
fix_variable(table, r) ==
    [b \in 1..(Len(table) \div 2) |->
        FAdd(FMul(table[2 * b - 1], FSub(1, r)), FMul(table[2 * b], r))]

RECURSIVE evaluate(_, _)
evaluate(table, point) ==
    IF point = <<>> THEN table[1]
    ELSE evaluate(fix_variable(table, Head(point)), Tail(point))

evaluate_mles(mles, r) == [j \in 1..Len(mles) |-> evaluate(mles[j], r)]

\* bit k (1-based) of the 0-based index x
Bit(x, k) == (x \div Pow2(k - 1)) % 2

eq_eval(a, b) ==
    ProdSeq([k \in 1..Min(Len(a), Len(b)) |->
        FAdd(FMul(a[k], b[k]), FMul(FSub(1, a[k]), FSub(1, b[k])))])

build_eq_x_r(r) ==
    [x \in 1..Pow2(Len(r)) |-> eq_eval([k \in 1..Len(r) |-> Bit(x - 1, k)], r)]

\* DenseMultilinearExtension::zero() is the table without entries
MleZero == <<>>
MleAdd(a, b) ==
    IF a = MleZero THEN b
    ELSE IF b = MleZero THEN a
    ELSE [x \in 1..Len(a) |-> FAdd(a[x], b[x])]
MleScale(a, c) == [x \in 1..Len(a) |-> FMul(a[x], c)]

RECURSIVE MleSum(_)
MleSum(ms) == IF ms = <<>> THEN MleZero ELSE MleAdd(Head(ms), MleSum(Tail(ms)))

RECURSIVE FPow(_, _)
FPow(c, j) == IF j = 0 THEN 1 ELSE FMul(c, FPow(c, j - 1))

\* successors(Some(c), |x| x * c) zipped with vec: the running power starts at c
\* and is multiplied by c after each element; the products are summed
RECURSIVE PowerSumFrom(_, _, _)
PowerSumFrom(pow, c, vec) ==
    IF vec = <<>> THEN 0
    ELSE FAdd(FMul(pow, Head(vec)), PowerSumFrom(FMul(pow, c), c, Tail(vec)))

PowerSum(c, vec) == PowerSumFrom(c, c, vec)

Last(s) == s[Len(s)]

-----------------------------------------------------------------------------
\* Transcript: a sponge state and the stream of operations performed on it.
new(cfg) == [st |-> cfg, log |-> <<>>]

absorb(t, v) ==
    [st |-> (5 * t.st + v + 1) % SpongeMod,
     log |-> Append(t.log, [op |-> "absorb", v |-> v])]

RECURSIVE absorb_slice(_, _)
absorb_slice(t, vs) ==
    IF vs = <<>> THEN t ELSE absorb_slice(absorb(t, Head(vs)), Tail(vs))

\* returns the challenge and the transcript after the squeeze
get_challenge(t) ==
    LET c == t.st % Q
    IN [c |-> c,
        t |-> [st |-> (3 * t.st + 7) % SpongeMod,
               log |-> Append(t.log, [op |-> "squeeze", v |-> c])]]

RECURSIVE get_challenges(_, _)
get_challenges(t, n) ==
    IF n = 0 THEN [cs |-> <<>>, t |-> t]
    ELSE LET one == get_challenge(t)
             rest == get_challenges(one.t, n - 1)
         IN [cs |-> <<one.c>> \o rest.cs, t |-> rest.t]

get_small_challenge(t) ==
    LET c == (t.st % 3) - 1
    IN [c |-> c,
        t |-> [st |-> (3 * t.st + 11) % SpongeMod,
               log |-> Append(t.log, [op |-> "squeeze_short", v |-> c])]]

RECURSIVE get_small_challenges(_, _)
get_small_challenges(t, n) ==
    IF n = 0 THEN [cs |-> <<>>, t |-> t]
    ELSE LET one == get_small_challenge(t)
             rest == get_small_challenges(one.t, n - 1)
         IN [cs |-> <<one.c>> \o rest.cs, t |-> rest.t]

-----------------------------------------------------------------------------
\* Combination functions handed to the sumcheck.
\* rand_poly_comb_fn: sum over the products of coef * prod of the listed MLEs
rand_poly_comb_fn(vals, products) ==
    SumSeq([p \in 1..Len(products) |->
        FMul(products[p].coef,
             ProdSeq([i \in 1..Len(products[p].idx) |-> vals[products[p].idx[i]]]))])

\* the loop "for b in 1..B_SMALL" of comb_fn: eval is multiplied by f_i^2 - b^2,
\* and the loop is left with eval = 0 at the first factor that is zero
RECURSIVE RangeLoop(_, _, _, _)
RangeLoop(eval, f_i_squared, b, b_small) ==
    IF b >= b_small THEN eval
    ELSE IF FSub(f_i_squared, FromInt(b * b)) = 0 THEN 0
    ELSE RangeLoop(FMul(eval, FSub(f_i_squared, FromInt(b * b))), f_i_squared,
                   b + 1, b_small)

\* the range-check factor of one f_hat evaluation: the loop, then eval *= f_i
RangeEval(eq_b, f_i, b_small) ==
    FMul(RangeLoop(eq_b, FMul(f_i, f_i), 1, b_small), f_i)

\* one iteration of the loop over d: a zero f_i only multiplies by mu
InterStep(prev, eq_b, f_i, mu, b_small) ==
    IF f_i = 0 THEN FMul(prev, mu)
    ELSE FMul(FAdd(prev, RangeEval(eq_b, f_i, b_small)), mu)

\* one iteration that leaves inter_result as it is on a zero f_i
InterStepSkip(prev, eq_b, f_i, mu, b_small) ==
    IF f_i = 0 THEN prev
    ELSE FMul(FAdd(prev, RangeEval(eq_b, f_i, b_small)), mu)

\* inner loop "for d in (0..extension_degree).rev()" of comb_fn for one mu:
\* the value of inter_result after the iterations e-1, ..., d (d is 0-based)
RECURSIVE InterResult(_, _, _, _, _, _)
InterResult(vals, k, mu, d, e, b_small) ==
    IF d >= e THEN 0
    ELSE InterStep(InterResult(vals, k, mu, d + 1, e, b_small), vals[5],
                   vals[5 + (k * e + d) + 1], mu, b_small)

RECURSIVE InterResultSkip(_, _, _, _, _, _)
InterResultSkip(vals, k, mu, d, e, b_small) ==
    IF d >= e THEN 0
    ELSE InterStepSkip(InterResultSkip(vals, k, mu, d + 1, e, b_small), vals[5],
                       vals[5 + (k * e + d) + 1], mu, b_small)

\* comb_fn whose shortcut for a zero f_i forgets inter_result *= mu
comb_fn_skip(vals, mu_s, e, b_small) ==
    FAdd(FAdd(FMul(vals[1], vals[2]), FMul(vals[3], vals[4])),
         SumSeq([k \in 1..Len(mu_s) |->
                    InterResultSkip(vals, k - 1, mu_s[k], 0, e, b_small)]))

\* comb_fn for extension degree e and DecompositionParams::B_SMALL = b_small
comb_fn_on(vals, mu_s, e, b_small) ==
    FAdd(FAdd(FMul(vals[1], vals[2]), FMul(vals[3], vals[4])),
         SumSeq([k \in 1..Len(mu_s) |->
                    InterResult(vals, k - 1, mu_s[k], 0, e, b_small)]))

comb_fn(vals, mu_s) == comb_fn_on(vals, mu_s, E, B_SMALL)

ProdComb(products) == [kind |-> "prod", products |-> products, mu_s |-> <<>>]
FoldComb(mu_s) == [kind |-> "fold", products |-> <<>>, mu_s |-> mu_s]

Comb(c, vals) ==
    IF c.kind = "fold" THEN comb_fn(vals, c.mu_s)
    ELSE rand_poly_comb_fn(vals, c.products)

-----------------------------------------------------------------------------
\* Sumcheck prover (utils/sumcheck/prover.rs) and the driver prove_as_subprotocol
None == [some |-> FALSE, randomness |-> 0]
Some(r) == [some |-> TRUE, randomness |-> r]

prover_init(mles, nvars, degree) ==
    [randomness |-> <<>>, mles |-> mles, nvars |-> nvars, degree |-> degree,
     round |-> 0]

\* prove_round, first half: record the previous challenge and fix it in every MLE
FixState(state, v_msg) ==
    IF v_msg.some
    THEN [state EXCEPT
            !.mles = [j \in 1..Len(@) |-> fix_variable(@[j], v_msg.randomness)],
            !.randomness = Append(@, v_msg.randomness),
            !.round = @ + 1]
    ELSE [state EXCEPT !.round = @ + 1]

\* value at X = x of the table restricted to the pair b of its first variable
MleAt(table, b, x) ==
    FAdd(FMul(table[2 * b - 1], FSub(1, x)), FMul(table[2 * b], x))

\* prove_round, second half: the round polynomial as its evaluations at 0..degree
RoundEvals(mles, degree, c) ==
    [x \in 1..(degree + 1) |->
        SumSeq([b \in 1..(Len(mles[1]) \div 2) |->
            Comb(c, [j \in 1..Len(mles) |-> MleAt(mles[j], b, FromInt(x - 1))])])]

WithEvals(state, c) ==
    [state |-> state, evaluations |-> RoundEvals(state.mles, state.degree, c)]

prove_round(state, v_msg, c) == WithEvals(FixState(state, v_msg), c)

sample_round(t) == get_challenge(t)

\* end of a prover iteration that forgets to absorb the sampled challenge
StepFinishNoAbsorb(pr, next) ==
    [t |-> next.t, state |-> pr.state, msg |-> pr.evaluations, v_msg |-> Some(next.c)]

\* end of a prover iteration: absorb the sampled challenge, keep it as verifier_msg
StepFinish(pr, next) ==
    [t |-> absorb(next.t, Norm(next.c)), state |-> pr.state,
     msg |-> pr.evaluations, v_msg |-> Some(next.c)]

\* absorb the round message, then sample the challenge
StepAbsorb(t, pr) == StepFinish(pr, sample_round(absorb_slice(t, pr.evaluations)))

\* one iteration of the loop of prove_as_subprotocol
prove_step(t, state, v_msg, c) == StepAbsorb(t, prove_round(state, v_msg, c))

RECURSIVE ProveLoop(_, _, _, _, _, _)
ProveNext(s, msgs, i, c) ==
    ProveLoop(s.t, s.state, s.v_msg, Append(msgs, s.msg), i + 1, c)

ProveLoop(t, state, v_msg, msgs, i, c) ==
    IF i = state.nvars THEN [t |-> t, state |-> state, v_msg |-> v_msg, msgs |-> msgs]
    ELSE ProveNext(prove_step(t, state, v_msg, c), msgs, i, c)

\* tag "Panic" is the unwrap of None after zero rounds
ProveResult(lp) ==
    IF ~lp.v_msg.some
    THEN [tag |-> "Panic", proof |-> lp.msgs, randomness |-> <<>>, t |-> lp.t]
    ELSE [tag |-> "Ok", proof |-> lp.msgs,
          randomness |-> Append(lp.state.randomness, lp.v_msg.randomness),
          t |-> lp.t]

prove_as_subprotocol(t, mles, nvars, degree, c) ==
    ProveResult(ProveLoop(absorb(absorb(t, FromInt(nvars)), FromInt(degree)),
                          prover_init(mles, nvars, degree), None, <<>>, 0, c))

extract_sum(proof) == FAdd(proof[1][1], proof[1][2])

-----------------------------------------------------------------------------
\* Sumcheck verifier (utils/sumcheck/verifier.rs) and verify_as_subprotocol
SCOk(point, ev, t) ==
    [tag |-> "Ok", err |-> "", point |-> point, expected_evaluation |-> ev,
     e1 |-> 0, e2 |-> 0, t |-> t]
SCErr(kind, e1, e2, t) ==
    [tag |-> "Err", err |-> kind, point |-> <<>>, expected_evaluation |-> 0,
     e1 |-> e1, e2 |-> e2, t |-> t]
SCPanic(t) ==
    [tag |-> "Panic", err |-> "", point |-> <<>>, expected_evaluation |-> 0,
     e1 |-> 0, e2 |-> 0, t |-> t]

verifier_init(nvars, degree) ==
    [nv |-> nvars, max_multiplicands |-> degree, polynomials_received |-> <<>>,
     randomness |-> <<>>]

Received(prover_msg, state, ch) ==
    [state |-> [state EXCEPT !.polynomials_received = Append(@, prover_msg),
                             !.randomness = Append(@, ch.c)],
     randomness |-> ch.c, t |-> ch.t]

verify_round(prover_msg, state, t) == Received(prover_msg, state, get_challenge(t))

\* Lagrange basis polynomial of the node j among 0..d, at r
LagrangeBasis(d, j, r) ==
    ProdSeq([k \in 1..d |->
        FMul(FSub(r, FromInt(IF k - 1 < j THEN k - 1 ELSE k)),
             FInv(FSub(FromInt(j), FromInt(IF k - 1 < j THEN k - 1 ELSE k))))])

\* Lagrange interpolation of the polynomial with values evals at 0..d, at r
interpolate_uni_poly(evals, r) ==
    SumSeq([j \in 1..Len(evals) |->
        FMul(evals[j], LagrangeBasis(Len(evals) - 1, j - 1, r))])

RECURSIVE CheckRounds(_, _, _, _)
CheckRounds(state, expected, i, t) ==
    IF i > state.nv THEN SCOk(state.randomness, expected, t)
    ELSE IF Len(state.polynomials_received[i]) # state.max_multiplicands + 1
    THEN SCErr("MaxDegreeExceeded", 0, 0, t)
    ELSE IF FAdd(state.polynomials_received[i][1],
                 state.polynomials_received[i][2]) # expected
    THEN SCErr("SumCheckFailed",
               FAdd(state.polynomials_received[i][1],
                    state.polynomials_received[i][2]), expected, t)
    ELSE CheckRounds(state,
                     interpolate_uni_poly(state.polynomials_received[i],
                                          state.randomness[i]),
                     i + 1, t)

check_and_generate_subclaim(state, asserted_sum, t) ==
    CheckRounds(state, asserted_sum, 1, t)

\* end of a verifier iteration that forgets to absorb the sampled challenge
VStepFinishNoAbsorb(vr) == [t |-> vr.t, state |-> vr.state]

\* end of a verifier iteration: absorb the sampled challenge
VStepFinish(vr) == [t |-> absorb(vr.t, Norm(vr.randomness)), state |-> vr.state]

\* one iteration of the loop of verify_as_subprotocol, prover_msg present
verify_step(t, state, prover_msg) ==
    VStepFinish(verify_round(prover_msg, state, absorb_slice(t, prover_msg)))

\* tag "Panic" is expect("proof is incomplete") on a missing round message
RECURSIVE VerifyLoop(_, _, _, _)
VerifyNext(s, proof, i) == VerifyLoop(s.t, s.state, proof, i + 1)

VerifyLoop(t, state, proof, i) ==
    IF i = state.nv THEN [tag |-> "Ok", t |-> t, state |-> state]
    ELSE IF i + 1 > Len(proof) THEN [tag |-> "Panic", t |-> t, state |-> state]
    ELSE VerifyNext(verify_step(t, state, proof[i + 1]), proof, i)

VerifyResult(lp, claimed_sum) ==
    IF lp.tag = "Panic" THEN SCPanic(lp.t)
    ELSE check_and_generate_subclaim(lp.state, claimed_sum, lp.t)

\* verify_as_subprotocol that forgets to absorb the degree
verify_as_subprotocol_skip_degree(t, nvars, degree, claimed_sum, proof) ==
    VerifyResult(VerifyLoop(absorb(t, FromInt(nvars)),
                            verifier_init(nvars, degree), proof, 0),
                 claimed_sum)

\* verify_as_subprotocol that checks the proof against the sum the proof itself carries
verify_as_subprotocol_own_sum(t, nvars, degree, claimed_sum, proof) ==
    VerifyResult(VerifyLoop(absorb(absorb(t, FromInt(nvars)), FromInt(degree)),
                            verifier_init(nvars, degree), proof, 0),
                 extract_sum(proof))

verify_as_subprotocol(t, nvars, degree, claimed_sum, proof) ==
    VerifyResult(VerifyLoop(absorb(absorb(t, FromInt(nvars)), FromInt(degree)),
                            verifier_init(nvars, degree), proof, 0),
                 claimed_sum)

\* the sum of the polynomial over the boolean hypercube
HypercubeSum(mles, c) ==
    SumSeq([x \in 1..Len(mles[1]) |-> Comb(c, [j \in 1..Len(mles) |-> mles[j][x]])])

-----------------------------------------------------------------------------
\* Ajtai commitment (commitment_scheme.rs), used to build the input instances
C == 2               \* rows of the Ajtai matrix, length of a commitment

\* tests::generate_ajtai: M[i][j] = i * W + j
generate_ajtai(W) == [i \in 1..C |-> [j \in 1..W |-> FromInt((i - 1) * W + (j - 1))]]

WrongWitnessLength(got, W) ==
    [tag |-> "Err", err |-> "WrongWitnessLength", args |-> <<got, W>>, cm |-> <<>>]

\* commit_ntt that leaves the last column out
commit_ntt_short(matrix, W, f) ==
    IF Len(f) # W THEN WrongWitnessLength(Len(f), W)
    ELSE [tag |-> "Ok", err |-> "", args |-> <<>>,
          cm |-> [i \in 1..C |->
                     SumSeq([j \in 1..(W - 1) |-> FMul(matrix[i][j], f[j])])]]

\* commit_ntt with a constant added to every coordinate
commit_ntt_affine(matrix, W, f) ==
    IF Len(f) # W THEN WrongWitnessLength(Len(f), W)
    ELSE [tag |-> "Ok", err |-> "", args |-> <<>>,
          cm |-> [i \in 1..C |->
                     FAdd(1, SumSeq([j \in 1..W |-> FMul(matrix[i][j], f[j])]))]]

commit_ntt(matrix, W, f) ==
    IF Len(f) # W THEN WrongWitnessLength(Len(f), W)
    ELSE [tag |-> "Ok", err |-> "", args |-> <<>>,
          cm |-> [i \in 1..C |-> SumSeq([j \in 1..W |-> FMul(matrix[i][j], f[j])])]]

-----------------------------------------------------------------------------
\* Folding: helpers of nifs/folding.rs and nifs/folding/utils.rs
RECURSIVE next_power_of_two(_)
next_power_of_two(x) == IF x <= 1 THEN 1 ELSE 2 * next_power_of_two((x + 1) \div 2)

\* usize arithmetic: a build with overflow checks aborts on a result out of
\* range, a build without them keeps the low UsizeBits bits
UsizeBits == 5       \* width of usize (scaled down)
UsizeMax == Pow2(UsizeBits) - 1
UPanic == [tag |-> "Panic", v |-> 0]
Usize(x, overflow_checks) ==
    IF 0 <= x /\ x <= UsizeMax THEN [tag |-> "Ok", v |-> x]
    ELSE IF overflow_checks THEN UPanic
    ELSE [tag |-> "Ok", v |-> ((x % Pow2(UsizeBits)) + Pow2(UsizeBits)) % Pow2(UsizeBits)]

\* rounding that returns its argument
RoundedUpExact(x, overflow_checks) == [tag |-> "Ok", v |-> x]

\* usize::next_power_of_two: aborts with overflow checks, 0 without them, when
\* the power of two does not fit
RoundedUp(x, overflow_checks) ==
    IF next_power_of_two(x) <= UsizeMax THEN [tag |-> "Ok", v |-> next_power_of_two(x)]
    ELSE IF overflow_checks THEN UPanic
    ELSE [tag |-> "Ok", v |-> 0]

ShapeOk == [tag |-> "Ok", err |-> "", args |-> <<>>]
ShapePanic == [tag |-> "Panic", err |-> "", args |-> <<>>]
InvalidSizeBounds(m, n, Lp) ==
    [tag |-> "Err", err |-> "InvalidSizeBounds", args |-> <<m, n, Lp>>]

\* the comparison of m with the rounded maximum
ShapeCompared(m, n, Lp, rounded) ==
    IF rounded.tag = "Panic" THEN ShapePanic
    ELSE IF m # rounded.v THEN InvalidSizeBounds(m, n, Lp)
    ELSE ShapeOk

ShapeMultiplied(m, n, Lp, overflow_checks, product) ==
    IF product.tag = "Panic" THEN ShapePanic
    ELSE ShapeCompared(m, n, Lp, RoundedUp(Max(product.v, m), overflow_checks))

ShapeDecremented(m, n, Lp, overflow_checks, width) ==
    IF width.tag = "Panic" THEN ShapePanic
    ELSE ShapeMultiplied(m, n, Lp, overflow_checks,
                         Usize(width.v * Lp, overflow_checks))

ShapeSubtracted(m, n, Lp, overflow_checks, diff) ==
    IF diff.tag = "Panic" THEN ShapePanic
    ELSE ShapeDecremented(m, n, Lp, overflow_checks, Usize(diff.v - 1, overflow_checks))

\* sanity_check on the fields of the CCS, for DecompositionParams::L = Lp
sanity_check_on(m, n, l, Lp, overflow_checks) ==
    ShapeSubtracted(m, n, Lp, overflow_checks, Usize(n - l, overflow_checks))

\* TRUE iff sanity_check returns Ok(())
sanity_check(shape) ==
    sanity_check_on(shape.m, shape.n, shape.l, L, TRUE).tag = "Ok"

\* four consecutive squeezes of lengths 2K, log_m, 2K, K
squeeze_alpha_beta_zeta_mu(t, log_m) ==
    LET a == get_challenges(t, 2 * K)
        b == get_challenges(a.t, log_m)
        z == get_challenges(b.t, 2 * K)
        m == get_challenges(z.t, K)
    IN [alpha_s |-> a.cs, beta_s |-> b.cs, zeta_s |-> z.cs, mu_s |-> m.cs, t |-> m.t]

get_rhos(t) == get_small_challenges(t, K)

\* Witness::take_f_hat: the tables are moved out of the witness; a take on a
\* witness whose tables are gone is detected. takes counts the calls and taken_at
\* records the number of transcript operations performed before the first one.
take_f_hat(w, now) ==
    IF w.taken
    THEN [tag |-> "Panic", f_hat |-> <<>>, w |-> [w EXCEPT !.takes = @ + 1]]
    ELSE [tag |-> "Ok", f_hat |-> w.f_hat,
          w |-> [w EXCEPT !.f_hat = <<>>, !.taken = TRUE, !.takes = @ + 1,
                          !.taken_at = now]]

\* w_s.iter_mut().map(|w| w.take_f_hat()).collect(): the tables and the witnesses
\* as the calls leave them
TakeAll(ws, now) ==
    [tag |-> IF \E i \in 1..Len(ws) : ws[i].taken THEN "Panic" ELSE "Ok",
     mles |-> [i \in 1..Len(ws) |-> take_f_hat(ws[i], now).f_hat],
     w_s |-> [i \in 1..Len(ws) |-> take_f_hat(ws[i], now).w]]

\* setup_f_hat_mles run a second time on the same witnesses
setup_f_hat_mles_twice(ws, now) == TakeAll(TakeAll(ws, now).w_s, now)

setup_f_hat_mles(ws, now) == TakeAll(ws, now)

get_ris(instances) == [i \in 1..Len(instances) |-> instances[i].r]

\* Horner fold of one instance from the first MLE up (the loop without .rev())
RECURSIVE HornerMleFromFirst(_, _)
HornerMleFromFirst(Mz, zeta_i) ==
    IF Mz = <<>> THEN MleZero
    ELSE MleScale(MleAdd(HornerMleFromFirst(SubSeq(Mz, 1, Len(Mz) - 1), zeta_i),
                         Mz[Len(Mz)]), zeta_i)

\* Horner fold of one instance, from the last MLE down
RECURSIVE HornerMle(_, _)
HornerMle(Mz, zeta_i) ==
    IF Mz = <<>> THEN MleZero
    ELSE MleScale(MleAdd(HornerMle(Tail(Mz), zeta_i), Head(Mz)), zeta_i)

\* calculate_challenged_mz_mle with the inner loop running from the first MLE
calculate_challenged_mz_mle_from_first(Mz_mles_vec, zeta_s) ==
    MleSum([i \in 1..Min(Len(zeta_s), Len(Mz_mles_vec)) |->
                HornerMleFromFirst(Mz_mles_vec[i], zeta_s[i])])

calculate_challenged_mz_mle(Mz_mles_vec, zeta_s) ==
    MleSum([i \in 1..Min(Len(zeta_s), Len(Mz_mles_vec)) |->
                HornerMle(Mz_mles_vec[i], zeta_s[i])])

\* sum over the instances of a group of sum_j alpha_i^(j+1) * f_hat[i][j]
ChallengedFHat(f_hat_mles, alpha_s) ==
    MleSum([i \in 1..Min(Len(alpha_s), Len(f_hat_mles)) |->
                MleSum([j \in 1..Len(f_hat_mles[i]) |->
                           MleScale(f_hat_mles[i][j], FPow(alpha_s[i], j))])])

\* the MLEs of g in the order comb_fn reads them: eq(r_0), g1+g3 of the first K
\* instances, eq(r_K), g1+g3 of the second K, eq(beta), then the f_hat tables
create_sumcheck_polynomial(log_m, f_hat_mles, alpha_s, Ms_1, Ms_2, ris, beta_s, mu_s) ==
    << build_eq_x_r(ris[1]),
       MleAdd(ChallengedFHat(SubSeq(f_hat_mles, 1, K), SubSeq(alpha_s, 1, K)), Ms_1),
       build_eq_x_r(ris[K + 1]),
       MleAdd(ChallengedFHat(SubSeq(f_hat_mles, K + 1, 2 * K),
                             SubSeq(alpha_s, K + 1, 2 * K)), Ms_2),
       build_eq_x_r(beta_s) >> \o Flatten(f_hat_mles)

get_thetas(f_hat_mles, r_0) ==
    [i \in 1..Len(f_hat_mles) |-> evaluate_mles(f_hat_mles[i], r_0)]

get_etas(Mz_mles_vec, r_0) ==
    [i \in 1..Len(Mz_mles_vec) |-> evaluate_mles(Mz_mles_vec[i], r_0)]

\* for_each(|row| transcript.absorb_slice(row))
RECURSIVE AbsorbRows(_, _)
AbsorbRows(t, rows) ==
    IF rows = <<>> THEN t ELSE AbsorbRows(absorb_slice(t, Head(rows)), Tail(rows))

\* absorb every row of eta_s, then every row of theta_s
AbsorbEtaTheta(t, theta_s, eta_s) == AbsorbRows(AbsorbRows(t, eta_s), theta_s)

\* absorb every row of theta_s, then every row of eta_s
AbsorbThetaEta(t, theta_s, eta_s) == AbsorbRows(AbsorbRows(t, theta_s), eta_s)

\* sum_i crt(rho_i) * rows[i], coordinate by coordinate, over the zipped pairs
LinComb(rho_s, rows, len) ==
    [k \in 1..len |->
        SumSeq([i \in 1..Min(Len(rho_s), Len(rows)) |-> FMul(crt(rho_s[i]), rows[i][k])])]

RowLen(rows) == IF rows = <<>> THEN 0 ELSE Len(rows[1])

compute_v0_u0_x0_cm_0(rho_s, theta_s, instances, eta_s, shape) ==
    [v_0 |-> LinComb(rho_s, theta_s, RowLen(theta_s)),
     cm_0 |-> LinComb(rho_s, [i \in 1..Len(instances) |-> instances[i].cm], C),
     u_0 |-> LinComb(rho_s, eta_s, RowLen(eta_s)),
     x_0 |-> LinComb(rho_s, [i \in 1..Len(instances) |-> instances[i].x_w],
                     RowLen([i \in 1..Len(instances) |-> instances[i].x_w]))]

NoLcccs == [r |-> <<>>, v |-> <<>>, cm |-> <<>>, u |-> <<>>, x_w |-> <<>>, h |-> 0]

\* prepare_public_output keeping the whole of x_0 as x_w
prepare_public_output_whole(r_0, v_0, cm_0, u_0, x_0, h) ==
    IF x_0 = <<>> THEN [tag |-> "Panic", lcccs |-> NoLcccs]
    ELSE [tag |-> "Ok",
          lcccs |-> [r |-> r_0, v |-> v_0, cm |-> cm_0, u |-> u_0, x_w |-> x_0, h |-> h]]

\* x_0[0..x_0.len() - 1]: on the empty vector the subtraction underflows, and the
\* call aborts (on the overflow check, or on the slice bound after wrapping)
prepare_public_output(r_0, v_0, cm_0, u_0, x_0, h) ==
    IF x_0 = <<>> THEN [tag |-> "Panic", lcccs |-> NoLcccs]
    ELSE [tag |-> "Ok",
          lcccs |-> [r |-> r_0, v |-> v_0, cm |-> cm_0, u |-> u_0,
                     x_w |-> SubSeq(x_0, 1, Len(x_0) - 1), h |-> h]]

\* x_0.last().copied()
last(x_0) ==
    IF x_0 = <<>> THEN [tag |-> "None", v |-> 0]
    ELSE [tag |-> "Some", v |-> x_0[Len(x_0)]]

\* fold over rho_s zipped with w_s; the inner zip cuts acc to the length of w_i.f
RECURSIVE FoldF0(_, _, _, _)
FoldF0(acc, rho_s, ws, i) ==
    IF i > Min(Len(rho_s), Len(ws)) THEN acc
    ELSE FoldF0([j \in 1..Min(Len(acc), Len(ws[i].f)) |->
                    FAdd(acc[j], FMul(crt(rho_s[i]), ws[i].f[j]))],
                rho_s, ws, i + 1)

compute_f_0(rho_s, ws) == FoldF0([j \in 1..Len(ws[1].f) |-> 0], rho_s, ws, 1)

\* Witness::from_f: the witness of f with its f_hat tables materialised
from_f(f) ==
    [f |-> f, f_hat |-> <<f>>, taken |-> FALSE, takes |-> 0, taken_at |-> 0]

-----------------------------------------------------------------------------
\* LFFoldingProver::prove
NoProof == [pointshift_sumcheck_proof |-> <<>>, theta_s |-> <<>>, eta_s |-> <<>>]

PErr(kind, t, ws) ==
    [tag |-> "Err", err |-> kind, lcccs |-> NoLcccs, w_0 |-> from_f(<<>>),
     proof |-> NoProof, t |-> t, w_s |-> ws]
PPanic(t, ws) ==
    [tag |-> "Panic", err |-> "", lcccs |-> NoLcccs, w_0 |-> from_f(<<>>),
     proof |-> NoProof, t |-> t, w_s |-> ws]

\* the end of step 7: the folded witness and the proof beside the public output
ProvePrepared(ws, sc, theta_s, eta_s, rho, out) ==
    IF out.tag = "Panic" THEN PPanic(rho.t, ws)
    ELSE [tag |-> "Ok", err |-> "", lcccs |-> out.lcccs,
          w_0 |-> from_f(compute_f_0(rho.cs, ws)),
          proof |-> [pointshift_sumcheck_proof |-> sc.proof, theta_s |-> theta_s,
                     eta_s |-> eta_s],
          t |-> rho.t, w_s |-> ws]

\* step 7 of prove: h = x_0.last().ok_or(IncorrectLength)?, then the output
ProveSplit(ws, sc, theta_s, eta_s, rho, fd, h) ==
    IF h.tag = "None" THEN PErr("IncorrectLength", rho.t, ws)
    ELSE ProvePrepared(ws, sc, theta_s, eta_s, rho,
                       prepare_public_output(sc.randomness, fd.v_0, fd.cm_0, fd.u_0,
                                             fd.x_0, h.v))

ProveOutput(ws, sc, theta_s, eta_s, rho, fd) ==
    ProveSplit(ws, sc, theta_s, eta_s, rho, fd, last(fd.x_0))

ProveFolded(instances, ws, shape, sc, theta_s, eta_s, rho) ==
    ProveOutput(ws, sc, theta_s, eta_s, rho,
                compute_v0_u0_x0_cm_0(rho.cs, theta_s, instances, eta_s, shape))

\* absorb theta_s then eta_s, then squeeze the rho challenges
ProveEvaluated(instances, ws, shape, sc, theta_s, eta_s) ==
    ProveFolded(instances, ws, shape, sc, theta_s, eta_s,
                get_rhos(AbsorbThetaEta(sc.t, theta_s, eta_s)))

\* steps 4 and 5 of prove: r_0 from the sumcheck state, then thetas and etas
ProveSumchecked(instances, ws, shape, Mz, f_hat_mles, sc) ==
    IF sc.tag = "Panic" THEN PPanic(sc.t, ws)
    ELSE ProveEvaluated(instances, ws, shape, sc,
                        get_thetas(f_hat_mles, sc.randomness),
                        get_etas(Mz, sc.randomness))

\* steps 2 and 3 of prove: build g from the tables taken out of the witnesses
\* and run the sumcheck prover on it
ProveTaken(instances, shape, Mz, ch, taken) ==
    IF taken.tag = "Panic" THEN PPanic(ch.t, taken.w_s)
    ELSE ProveSumchecked(instances, taken.w_s, shape, Mz, taken.mles,
        prove_as_subprotocol(
            ch.t,
            create_sumcheck_polynomial(
                shape.s, taken.mles, ch.alpha_s,
                calculate_challenged_mz_mle(SubSeq(Mz, 1, K), SubSeq(ch.zeta_s, 1, K)),
                calculate_challenged_mz_mle(SubSeq(Mz, K + 1, 2 * K),
                                            SubSeq(ch.zeta_s, K + 1, 2 * K)),
                get_ris(instances), ch.beta_s, ch.mu_s),
            shape.s, 2 * B_SMALL, FoldComb(ch.mu_s)))

\* step 2 of prove starts with setup_f_hat_mles(&mut w_s), after the squeeze
ProveChallenged(instances, ws, shape, Mz, ch) ==
    ProveTaken(instances, shape, Mz, ch, setup_f_hat_mles(ws, Len(ch.t.log)))

\* prove with the length check ahead of sanity_check
prove_length_first(instances, ws, t, shape, Mz) ==
    IF Len(instances) # 2 * K THEN PErr("IncorrectLength", t, ws)
    ELSE IF ~sanity_check(shape) THEN PErr("InvalidSizeBounds", t, ws)
    ELSE ProveChallenged(instances, ws, shape, Mz,
                         squeeze_alpha_beta_zeta_mu(t, shape.s))

prove(instances, ws, t, shape, Mz) ==
    IF ~sanity_check(shape) THEN PErr("InvalidSizeBounds", t, ws)
    ELSE IF Len(instances) # 2 * K THEN PErr("IncorrectLength", t, ws)
    ELSE ProveChallenged(instances, ws, shape, Mz,
                         squeeze_alpha_beta_zeta_mu(t, shape.s))

-----------------------------------------------------------------------------
\* LFFoldingVerifier
NoChallenges == [alpha_s |-> <<>>, beta_s |-> <<>>, zeta_s |-> <<>>, mu_s |-> <<>>]
Challenges(ch) ==
    [alpha_s |-> ch.alpha_s, beta_s |-> ch.beta_s, zeta_s |-> ch.zeta_s,
     mu_s |-> ch.mu_s]

\* verify's result; ch and r_0 record the challenges the verifier drew
VErr(kind, t, ch, r_0) ==
    [tag |-> "Err", err |-> kind, lcccs |-> NoLcccs, t |-> t, ch |-> ch, r_0 |-> r_0]
VPanic(t, ch) ==
    [tag |-> "Panic", err |-> "", lcccs |-> NoLcccs, t |-> t, ch |-> ch, r_0 |-> <<>>]

\* calculate_claims with the powers of alpha_i and zeta_i starting at exponent 0
calculate_claims_from_one(alpha_s, zeta_s, instances) ==
    [claim_g1 |-> SumSeq([i \in 1..Min(Len(alpha_s), Len(instances)) |->
                             SumSeq([j \in 1..Len(instances[i].v) |->
                                 FMul(FPow(alpha_s[i], j - 1), instances[i].v[j])])]),
     claim_g3 |-> SumSeq([i \in 1..Min(Len(zeta_s), Len(instances)) |->
                             SumSeq([j \in 1..Len(instances[i].u) |->
                                 FMul(FPow(zeta_s[i], j - 1), instances[i].u[j])])])]

\* calculate_claims with claim_g3 weighted by the powers of alpha_i
calculate_claims_cross(alpha_s, zeta_s, instances) ==
    [claim_g1 |-> SumSeq([i \in 1..Min(Len(alpha_s), Len(instances)) |->
                             PowerSum(alpha_s[i], instances[i].v)]),
     claim_g3 |-> SumSeq([i \in 1..Min(Len(alpha_s), Len(instances)) |->
                             PowerSum(alpha_s[i], instances[i].u)])]

calculate_claims(alpha_s, zeta_s, instances) ==
    [claim_g1 |-> SumSeq([i \in 1..Min(Len(alpha_s), Len(instances)) |->
                             PowerSum(alpha_s[i], instances[i].v)]),
     claim_g3 |-> SumSeq([i \in 1..Min(Len(zeta_s), Len(instances)) |->
                             PowerSum(zeta_s[i], instances[i].u)])]

\* the claimed sum without claim_g3
TotalClaimG1Only(claims) == claims.claim_g1

\* the claimed sum handed to the sumcheck verifier
TotalClaim(claims) == FAdd(claims.claim_g1, claims.claim_g3)

\* the range-check factor theta * prod_b (theta^2 - b^2)
RangeTerm(theta) ==
    FMul(theta, ProdSeq([b \in 1..(B_SMALL - 1) |->
                            FSub(FMul(theta, theta), FromInt(b * b))]))

compute_sumcheck_claim_expected_value(alpha_s, mu_s, theta_s, e_asterisk, e_s, zeta_s, eta_s) ==
    FAdd(SumSeq([i \in 1..Min(Min(2 * K, Len(e_s)), Min(Len(theta_s), Len(eta_s))) |->
                    FMul(e_s[i], FAdd(PowerSum(alpha_s[i], theta_s[i]),
                                      PowerSum(zeta_s[i], eta_s[i])))]),
         FMul(e_asterisk,
              SumSeq([k \in 1..Min(Len(mu_s), Len(theta_s)) |->
                         PowerSum(mu_s[k], [d \in 1..Len(theta_s[k]) |->
                                               RangeTerm(theta_s[k][d])])])))

\* the value verify_evaluation recomputes from the proof
ShouldEqual(ch, r_0, proof, instances) ==
    compute_sumcheck_claim_expected_value(
        ch.alpha_s, ch.mu_s, proof.theta_s, eq_eval(ch.beta_s, r_0),
        [i \in 1..Len(instances) |-> eq_eval(instances[i].r, r_0)],
        ch.zeta_s, proof.eta_s)

\* verify_evaluation without the comparison
verify_evaluation_unchecked(ch, r_0, expected_evaluation, proof, instances) == TRUE

\* TRUE iff verify_evaluation returns Ok(())
verify_evaluation(ch, r_0, expected_evaluation, proof, instances) ==
    ShouldEqual(ch, r_0, proof, instances) = expected_evaluation

verify_sumcheck_proof(t, nvars, degree, total_claim, proof) ==
    verify_as_subprotocol(t, nvars, degree, total_claim,
                          proof.pointshift_sumcheck_proof)

\* step 7 of verify
VerifyPrepared(sc, ch, rho, out) ==
    IF out.tag = "Panic" THEN VPanic(rho.t, ch)
    ELSE [tag |-> "Ok", err |-> "", lcccs |-> out.lcccs, t |-> rho.t, ch |-> ch,
          r_0 |-> sc.point]

\* step 7 of verify: h = x_0.last().ok_or(IncorrectLength)?, then the output
VerifySplit(sc, ch, rho, fd, h) ==
    IF h.tag = "None" THEN VErr("IncorrectLength", rho.t, ch, sc.point)
    ELSE VerifyPrepared(sc, ch, rho,
                        prepare_public_output(sc.point, fd.v_0, fd.cm_0, fd.u_0,
                                              fd.x_0, h.v))

VerifyOutput(sc, ch, rho, fd) == VerifySplit(sc, ch, rho, fd, last(fd.x_0))

VerifyFolded(instances, proof, shape, sc, ch, rho) ==
    VerifyOutput(sc, ch, rho,
                 compute_v0_u0_x0_cm_0(rho.cs, proof.theta_s, instances,
                                       proof.eta_s, shape))

\* steps 3 and 5 of verify: the evaluation check, the absorbs and the rho squeeze
VerifySumchecked(instances, proof, shape, ch, sc) ==
    IF sc.tag = "Panic" THEN VPanic(sc.t, Challenges(ch))
    ELSE IF sc.tag = "Err" THEN VErr(sc.err, sc.t, Challenges(ch), <<>>)
    ELSE IF ~verify_evaluation(ch, sc.point, sc.expected_evaluation, proof, instances)
    THEN VErr("SumCheckFailed", sc.t, Challenges(ch), sc.point)
    ELSE VerifyFolded(instances, proof, shape, sc, Challenges(ch),
                      get_rhos(AbsorbThetaEta(sc.t, proof.theta_s, proof.eta_s)))

VerifyChallenged(instances, proof, shape, ch) ==
    VerifySumchecked(instances, proof, shape, ch,
        verify_sumcheck_proof(ch.t, shape.s, 2 * B_SMALL,
            TotalClaim(calculate_claims(ch.alpha_s, ch.zeta_s, instances)), proof))

verify(instances, proof, t, shape) ==
    IF ~sanity_check(shape) THEN VErr("InvalidSizeBounds", t, NoChallenges, <<>>)
    ELSE VerifyChallenged(instances, proof, shape,
                          squeeze_alpha_beta_zeta_mu(t, shape.s))

-----------------------------------------------------------------------------
\* Stand-alone sumcheck session (tests::generate_sumcheck_proof, test_sumcheck,
\* test_failing_sumcheck): a product-of-MLEs polynomial is proved, then checked
\* by a verifier on a fresh transcript of the same configuration.
Table(a, b, n) == [x \in 1..Pow2(n) |-> Norm(a + b * x * x)]

ProductFamilies ==
    { <<[coef |-> 1, idx |-> <<1, 2>>]>>,
      <<[coef |-> 2, idx |-> <<1>>], [coef |-> 3, idx |-> <<1, 2>>]>>,
      <<[coef |-> 1, idx |-> <<1, 1, 2>>]>> }

RECURSIVE MaxIdxLen(_)
MaxIdxLen(products) ==
    IF products = <<>> THEN 0
    ELSE Max(Len(Head(products).idx), MaxIdxLen(Tail(products)))


RandPoly(n, mles, pr) ==
    [nvars |-> n, degree |-> MaxIdxLen(pr), mles |-> mles, products |-> pr,
     sum |-> HypercubeSum(mles, ProdComb(pr))]

rand_poly ==
    { RandPoly(n, <<Table(a, 1, n), Table(b, 3, n)>>, pr) :
         n \in 0..MaxVars, a \in 0..MaxSeed, b \in 0..MaxSeed,
         pr \in ProductFamilies }

NoCcs == [m |-> 0, n |-> 0, l |-> 0, s |-> 0, t |-> 0]
NoPoly == [nvars |-> 0, degree |-> 0, mles |-> <<>>, products |-> <<>>, sum |-> 0]
NoOut == [tag |-> "None"]
Configs == 0..(NumConfigs - 1)

InitSC ==
    /\ pc = "sc_init"
    /\ config \in Configs
    /\ poly \in rand_poly
    /\ ccs = NoCcs
    /\ cm_i_s = <<>>
    /\ w_s = <<>>
    /\ mz_mles = <<>>
    /\ transcript = new(config)
    /\ v_transcript = new(config)
    /\ prove_out = NoOut
    /\ v_in = NoOut
    /\ verify_out = NoOut
    /\ call = NoCall
    /\ ret = NoCall

ProveOut(res) == [tag |-> res.tag, proof |-> res.proof, randomness |-> res.randomness]

SetSumcheckProved(res) ==
    /\ prove_out' = ProveOut(res)
    /\ transcript' = res.t

SumcheckProve ==
    /\ pc = "sc_init"
    /\ SetSumcheckProved(prove_as_subprotocol(transcript, poly.mles, poly.nvars,
                                              poly.degree, ProdComb(poly.products)))
    /\ pc' = "sc_proved"
    /\ UNCHANGED <<config, ccs, cm_i_s, w_s, mz_mles, poly, v_transcript, v_in,
                   verify_out, lib_vars>>

\* the proofs handed to the verifier: the honest one and one cut short
ProofsFrom(proof) ==
    {proof} \cup (IF proof = <<>> THEN {} ELSE {SubSeq(proof, 1, Len(proof) - 1)})

SubClaimOut(res) ==
    [tag |-> res.tag, err |-> res.err, point |-> res.point,
     expected_evaluation |-> res.expected_evaluation, e1 |-> res.e1, e2 |-> res.e2]

SetSumcheckVerified(res) ==
    /\ verify_out' = SubClaimOut(res)
    /\ v_transcript' = res.t

SumcheckVerify ==
    /\ pc = "sc_proved"
    /\ prove_out.tag = "Ok"
    /\ \E claimed_sum \in {poly.sum, FAdd(poly.sum, 1), 0},
          proof \in ProofsFrom(prove_out.proof) :
          /\ v_in' = [tag |-> "sc", claimed_sum |-> claimed_sum, proof |-> proof]
          /\ SetSumcheckVerified(verify_as_subprotocol(v_transcript, poly.nvars,
                                                       poly.degree, claimed_sum, proof))
    /\ pc' = "sc_verified"
    /\ UNCHANGED <<config, ccs, cm_i_s, w_s, mz_mles, poly, transcript, prove_out,
                   lib_vars>>

NextSC == SumcheckProve \/ SumcheckVerify

SpecSC == InitSC /\ [][NextSC]_vars

-----------------------------------------------------------------------------
\* Folding session: 2K LCCCS instances with consistent witnesses are folded by
\* prove; verify then runs on a fresh transcript of the same configuration with
\* the instances and the proof, honest or changed in one place.
Small(x) == IF x % 3 = 0 THEN 0 ELSE IF x % 3 = 1 THEN 1 ELSE Q - 1

\* a witness whose coordinates lie in {-1, 0, 1}
WitnessF(seed, i, s) == [x \in 1..Pow2(s) |-> Small(seed + i + x)]
MzTables(seed, i, s) == [j \in 1..T |-> Table(seed + i, j, s)]
Point(seed, i, s) == [k \in 1..s |-> Norm(seed + 2 * i + k)]
PublicInput(seed, i, l) == [k \in 1..l |-> Norm(seed + i + k)]

\* the LCCCS instance that w and Mz satisfy at the point r
Instance(w, Mz, r, x_w) ==
    [r |-> r, v |-> evaluate_mles(w.f_hat, r),
     cm |-> commit_ntt(generate_ajtai(Len(w.f)), Len(w.f), w.f).cm,
     u |-> evaluate_mles(Mz, r), x_w |-> x_w, h |-> 1]

Shape(m, n, l, s) == [m |-> m, n |-> n, l |-> l, s |-> s, t |-> T]

\* the largest number of public inputs of an instance
MaxPublic == 2

\* CCS shapes that pass sanity_check
ValidShapes ==
    { Shape(Pow2(s), l + 2, l, s) : s \in 1..MaxVars, l \in 0..MaxPublic }
        \cup { Shape(1, 2, 1, 0) }
\* m is no power of two; the witness part (n - l - 1) * L exceeds m
InvalidShapes == { Shape(3, 3, 1, 2), Shape(2, 4, 1, 1) }

InstanceCounts == {2 * K - 1, 2 * K, 2 * K + 1}

Init ==
    /\ pc = "init"
    /\ config \in Configs
    /\ ccs \in ValidShapes \cup InvalidShapes
    /\ poly = NoPoly
    /\ \E seed \in 0..MaxSeed, count \in InstanceCounts :
          /\ w_s = [i \in 1..count |-> from_f(WitnessF(seed, i, ccs.s))]
          /\ mz_mles = [i \in 1..count |-> MzTables(seed, i, ccs.s)]
          /\ cm_i_s = [i \in 1..count |->
                          Instance(from_f(WitnessF(seed, i, ccs.s)),
                                   MzTables(seed, i, ccs.s),
                                   Point(seed, i, ccs.s),
                                   PublicInput(seed, i, ccs.l))]
    /\ transcript = new(config)
    /\ v_transcript = new(config)
    /\ prove_out = NoOut
    /\ v_in = NoOut
    /\ verify_out = NoOut
    /\ call = NoCall
    /\ ret = NoCall

FoldOut(res) ==
    [tag |-> res.tag, err |-> res.err, lcccs |-> res.lcccs, w_0 |-> res.w_0,
     proof |-> res.proof]

SetProved(res) ==
    /\ prove_out' = FoldOut(res)
    /\ transcript' = res.t
    /\ w_s' = res.w_s

Prove ==
    /\ pc = "init"
    /\ SetProved(prove(cm_i_s, w_s, transcript, ccs, mz_mles))
    /\ pc' = "proved"
    /\ UNCHANGED <<config, ccs, cm_i_s, mz_mles, poly, v_transcript, v_in,
                   verify_out, lib_vars>>

Bump(vec, k) == [vec EXCEPT ![k] = FAdd(@, 1)]

\* what the verifier is handed: the honest inputs, or the inputs changed in one
\* coordinate, or without public inputs, or with an instance appended or dropped
VerifierInputs(instances, proof) ==
    { [tag |-> "fold", kind |-> "none", i |-> 0, k |-> 0,
       cm_i_s |-> instances, proof |-> proof] }
    \cup { [tag |-> "fold", kind |-> "theta", i |-> i, k |-> k, cm_i_s |-> instances,
            proof |-> [proof EXCEPT !.theta_s[i] = Bump(@, k)]] :
              i \in 1..Len(proof.theta_s), k \in 1..E }
    \cup { [tag |-> "fold", kind |-> "cm", i |-> i, k |-> k,
            cm_i_s |-> [instances EXCEPT ![i].cm = Bump(@, k)], proof |-> proof] :
              i \in 1..Len(instances), k \in 1..C }
    \cup { [tag |-> "fold", kind |-> "x_w", i |-> i, k |-> k,
            cm_i_s |-> [instances EXCEPT ![i].x_w = Bump(@, k)], proof |-> proof] :
              i \in 1..Len(instances), k \in 1..Len(instances[1].x_w) }
    \cup { [tag |-> "fold", kind |-> "u", i |-> i, k |-> k,
            cm_i_s |-> [instances EXCEPT ![i].u = Bump(@, k)], proof |-> proof] :
              i \in 1..Len(instances), k \in 1..T }
    \cup { [tag |-> "fold", kind |-> "no_x", i |-> 0, k |-> 0,
            cm_i_s |-> [i \in 1..Len(instances) |-> [instances[i] EXCEPT !.x_w = <<>>]],
            proof |-> proof] }
    \cup { [tag |-> "fold", kind |-> "more", i |-> 0, k |-> 0,
            cm_i_s |-> Append(instances, instances[1]), proof |-> proof],
           [tag |-> "fold", kind |-> "fewer", i |-> 0, k |-> 0,
            cm_i_s |-> SubSeq(instances, 1, Len(instances) - 1), proof |-> proof] }

VerifyOut(res) ==
    [tag |-> res.tag, err |-> res.err, lcccs |-> res.lcccs, ch |-> res.ch,
     r_0 |-> res.r_0]

SetVerified(res) ==
    /\ verify_out' = VerifyOut(res)
    /\ v_transcript' = res.t

Verify ==
    /\ pc = "proved"
    /\ prove_out.tag = "Ok"
    /\ \E input \in VerifierInputs(cm_i_s, prove_out.proof) :
          /\ v_in' = input
          /\ SetVerified(verify(input.cm_i_s, input.proof, v_transcript, ccs))
    /\ pc' = "verified"
    /\ UNCHANGED <<config, ccs, cm_i_s, w_s, mz_mles, poly, transcript, prove_out,
                   lib_vars>>

Next == Prove \/ Verify

Spec == Init /\ [][Next]_vars

-----------------------------------------------------------------------------
\* Properties of the folding session
Verified == pc = "verified"
SumCheckFailed == verify_out.tag = "Err" /\ verify_out.err = "SumCheckFailed"

\* C1: for 2K valid instances with consistent witnesses, verify on a transcript
\* in the prover's initial state, given the proof prove returned, returns Ok and
\* its LCCCS equals the prover's LCCCS in every field.
FoldingRoundTrip ==
    (Verified /\ v_in.kind = "none")
        => (verify_out.tag = "Ok" /\ verify_out.lcccs = prove_out.lcccs)

FoldingRoundTripWitness ==
    /\ Verified
    /\ v_in.kind = "none"
    /\ ccs.s >= 2
    /\ verify_out.tag = "Ok"
    /\ verify_out.lcccs = prove_out.lcccs
    /\ Len(verify_out.lcccs.r) = ccs.s
    /\ \E k \in 1..C : verify_out.lcccs.cm[k] # 0

\* how far the value verify_evaluation recomputes from the handed proof lies
\* from the one it recomputes from the prover's proof
ThetaShift ==
    FSub(ShouldEqual(verify_out.ch, verify_out.r_0, v_in.proof, v_in.cm_i_s),
         ShouldEqual(verify_out.ch, verify_out.r_0, prove_out.proof, cm_i_s))

\* C2 as stated: a proof with one entry theta_s[i][k] changed is always rejected
\* with Err(SumCheckError(SumCheckFailed)).
ThetaTamperAlwaysRejected ==
    (Verified /\ v_in.kind = "theta") => SumCheckFailed

\* C2: a proof with one entry theta_s[i][k] changed is rejected with
\* Err(SumCheckError(SumCheckFailed)) exactly when the change moves the value
\* recomputed by compute_sumcheck_claim_expected_value; when that value is left
\* where it was, verify returns Ok for the changed proof.
ThetaTamperRejectedWhenValueMoves ==
    (Verified /\ v_in.kind = "theta")
        => IF ThetaShift # 0 THEN SumCheckFailed ELSE verify_out.tag = "Ok"

ThetaTamperRejectedWhenValueMovesWitness ==
    /\ Verified
    /\ v_in.kind = "theta"
    /\ v_in.proof.theta_s[v_in.i][v_in.k]
           = FAdd(prove_out.proof.theta_s[v_in.i][v_in.k], 1)
    /\ ThetaShift # 0
    /\ SumCheckFailed

\* C3 as stated: changing one coordinate of cm or of x_w of one input instance
\* makes verify return an Err.
CmOrXwTamperRejected ==
    (Verified /\ v_in.kind \in {"cm", "x_w"}) => verify_out.tag = "Err"

\* C4 as stated: changing one coordinate of u of one input instance always makes
\* verify return an Err.
UTamperAlwaysRejected ==
    (Verified /\ v_in.kind = "u") => verify_out.tag = "Err"

\* C4: changing one coordinate of u of input instance i is rejected with
\* Err(SumCheckError(SumCheckFailed)) exactly when the challenge zeta_i is not
\* zero; when zeta_i = 0 the claimed sum is the honest one and verify returns
\* the prover's LCCCS.
UTamperRejectedWhenZetaNonZero ==
    (Verified /\ v_in.kind = "u")
        => IF verify_out.ch.zeta_s[v_in.i] # 0
           THEN SumCheckFailed
           ELSE verify_out.tag = "Ok" /\ verify_out.lcccs = prove_out.lcccs

UTamperRejectedWhenZetaNonZeroWitness ==
    /\ Verified
    /\ v_in.kind = "u"
    /\ v_in.cm_i_s[v_in.i].u[v_in.k] = FAdd(cm_i_s[v_in.i].u[v_in.k], 1)
    /\ verify_out.ch.zeta_s[v_in.i] # 0
    /\ SumCheckFailed

NothingTaken == \A i \in 1..Len(w_s) : ~w_s[i].taken /\ w_s[i].f_hat = <<w_s[i].f>>
ProveFailedWith(kind) == prove_out.tag = "Err" /\ prove_out.err = kind

\* C5: prove returns Err(InvalidSizeBounds) when sanity_check fails, otherwise
\* Err(IncorrectLength) when the number of instances is not 2K; in both cases
\* the transcript has seen no operation and no witness has lost its f_hat.
ProverPreconditions ==
    (pc # "init")
        => /\ ~sanity_check(ccs)
                => /\ ProveFailedWith("InvalidSizeBounds")
                   /\ transcript = new(config)
                   /\ NothingTaken
           /\ (sanity_check(ccs) /\ Len(cm_i_s) # 2 * K)
                => /\ ProveFailedWith("IncorrectLength")
                   /\ transcript = new(config)
                   /\ NothingTaken

ProverPreconditionsWitness ==
    /\ pc = "proved"
    /\ ~sanity_check(ccs)
    /\ Len(cm_i_s) # 2 * K
    /\ ProveFailedWith("InvalidSizeBounds")
    /\ transcript.log = <<>>
    /\ NothingTaken

\* C6 as stated: verify returns Err(IncorrectLength) whenever it is given a
\* number of instances other than 2K.
VerifierRejectsWrongCount ==
    (Verified /\ Len(v_in.cm_i_s) # 2 * K)
        => (verify_out.tag = "Err" /\ verify_out.err = "IncorrectLength")

\* the transcript operations of one folding run on a CCS with s variables: the
\* squeezes of alpha, beta, zeta, mu; the sumcheck; theta_s row by row; eta_s row
\* by row; the rho squeezes
AfterChallenges(s) == 2 * K + s + 2 * K + K
AfterSumcheck(s) == AfterChallenges(s) + 2 + s * (2 * B_SMALL + 3)
Ops(log) == [i \in 1..Len(log) |-> log[i].op]

FoldingLog(log, proof, s) ==
    /\ Len(log) = AfterSumcheck(s) + Len(Flatten(proof.theta_s))
                     + Len(Flatten(proof.eta_s)) + K
    /\ \A i \in 1..AfterChallenges(s) : log[i].op = "squeeze"
    /\ log[AfterChallenges(s) + 1] = [op |-> "absorb", v |-> s]
    /\ log[AfterChallenges(s) + 2] = [op |-> "absorb", v |-> 2 * B_SMALL]
    /\ \A i \in (AfterChallenges(s) + 1)..AfterSumcheck(s) :
          log[i].op \in {"absorb", "squeeze"}
    /\ \A i \in 1..Len(Flatten(proof.theta_s)) :
          log[AfterSumcheck(s) + i] = [op |-> "absorb", v |-> Flatten(proof.theta_s)[i]]
    /\ \A i \in 1..Len(Flatten(proof.eta_s)) :
          log[AfterSumcheck(s) + Len(Flatten(proof.theta_s)) + i]
              = [op |-> "absorb", v |-> Flatten(proof.eta_s)[i]]
    /\ \A i \in 1..K : log[Len(log) - K + i].op = "squeeze_short"

\* C18: prove, and verify on a proof that passes its checks, squeeze alpha,
\* beta, zeta, mu first, then run the sumcheck, then absorb every row of theta_s
\* in order, then every row of eta_s, and only then squeeze the rho challenges;
\* both perform the same sequence of operations.
FoldingTranscriptOrder ==
    /\ (pc \in {"proved", "verified"} /\ prove_out.tag = "Ok")
          => FoldingLog(transcript.log, prove_out.proof, ccs.s)
    /\ (Verified /\ verify_out.tag = "Ok")
          => /\ FoldingLog(v_transcript.log, v_in.proof, ccs.s)
             /\ Ops(v_transcript.log) = Ops(transcript.log)
             /\ v_in.proof = prove_out.proof => v_transcript.log = transcript.log

FoldingTranscriptOrderWitness ==
    /\ Verified
    /\ verify_out.tag = "Ok"
    /\ v_in.kind = "none"
    /\ ccs.s = 2
    /\ Flatten(prove_out.proof.theta_s) \o Flatten(prove_out.proof.eta_s)
           # Flatten(prove_out.proof.eta_s) \o Flatten(prove_out.proof.theta_s)
    /\ FoldingLog(v_transcript.log, v_in.proof, ccs.s)
    /\ v_transcript.log = transcript.log
    /\ Len(transcript.log) = 30

-----------------------------------------------------------------------------
\* Properties of the stand-alone sumcheck
SCHonestProof == pc = "sc_verified" /\ v_in.proof = prove_out.proof

\* C7: an honestly generated proof (nvars >= 1) checked on a fresh transcript of
\* the same configuration against the true sum is accepted with Ok(SubClaim).
SumcheckCompleteness ==
    (SCHonestProof /\ v_in.claimed_sum = poly.sum) => verify_out.tag = "Ok"

SumcheckCompletenessWitness ==
    /\ SCHonestProof
    /\ v_in.claimed_sum = poly.sum
    /\ poly.nvars >= 2
    /\ poly.degree = 3
    /\ verify_out.tag = "Ok"

\* C8: an honest proof checked against a claimed sum other than the true sum is
\* rejected with Err(SumCheckFailed), never accepted.
SumcheckRejectsWrongSum ==
    (SCHonestProof /\ v_in.claimed_sum # poly.sum)
        => (verify_out.tag = "Err" /\ verify_out.err = "SumCheckFailed")

SumcheckRejectsWrongSumWitness ==
    /\ SCHonestProof
    /\ poly.sum # 0
    /\ v_in.claimed_sum = 0
    /\ poly.nvars >= 2
    /\ verify_out.tag = "Err"
    /\ verify_out.err = "SumCheckFailed"

Absorbed(v) == [op |-> "absorb", v |-> v]
Squeezed(v) == [op |-> "squeeze", v |-> v]
NumAbsorbs(log) == Cardinality({i \in 1..Len(log) : log[i].op = "absorb"})

\* the stream with nothing absorbed after the squeeze of a round
ClaimedProverStream(nvars, degree, proof, randomness) ==
    <<Absorbed(FromInt(nvars)), Absorbed(FromInt(degree))>> \o
    Flatten([i \in 1..nvars |->
        [j \in 1..Len(proof[i]) |-> Absorbed(proof[i][j])] \o
        <<Squeezed(randomness[i])>>])

\* the stream with the challenge of a round absorbed right after its squeeze
ProverStream(nvars, degree, proof, randomness) ==
    <<Absorbed(FromInt(nvars)), Absorbed(FromInt(degree))>> \o
    Flatten([i \in 1..nvars |->
        [j \in 1..Len(proof[i]) |-> Absorbed(proof[i][j])] \o
        <<Squeezed(randomness[i]), Absorbed(randomness[i])>>])

RoundsHaveDegreePlusOne ==
    /\ Len(prove_out.proof) = poly.nvars
    /\ Len(prove_out.randomness) = poly.nvars
    /\ \A i \in 1..poly.nvars : Len(prove_out.proof[i]) = poly.degree + 1

\* C9 as stated: the prover absorbs nvars, degree, and per round the d+1
\* evaluations followed by one squeeze and nothing else: 2 + nvars*(d+1) absorbs.
SumcheckProverStreamAsClaimed ==
    (pc = "sc_proved" /\ prove_out.tag = "Ok")
        => /\ RoundsHaveDegreePlusOne
           /\ transcript.log = ClaimedProverStream(poly.nvars, poly.degree,
                                                   prove_out.proof, prove_out.randomness)
           /\ NumAbsorbs(transcript.log) = 2 + poly.nvars * (poly.degree + 1)

\* C9 amended: the prover absorbs nvars, degree, and per round the d+1
\* evaluations, then squeezes r_i and absorbs r_i: 2 + nvars*(d+2) absorbs, and
\* between the squeeze of r_i and the evaluations of round i+1 exactly r_i is absorbed.
SumcheckProverStream ==
    (pc = "sc_proved" /\ prove_out.tag = "Ok")
        => /\ RoundsHaveDegreePlusOne
           /\ transcript.log = ProverStream(poly.nvars, poly.degree,
                                            prove_out.proof, prove_out.randomness)
           /\ NumAbsorbs(transcript.log) = 2 + poly.nvars * (poly.degree + 2)

SumcheckProverStreamWitness ==
    /\ pc = "sc_proved"
    /\ prove_out.tag = "Ok"
    /\ poly.nvars >= 2
    /\ Len(transcript.log) = 2 + poly.nvars * (poly.degree + 3)

\* C10 as stated: verify_as_subprotocol returns Ok or Err for every proof, also
\* for one with fewer than nvars round messages.
SumcheckVerifierNeverAborts ==
    pc = "sc_verified" => verify_out.tag \in {"Ok", "Err"}

-----------------------------------------------------------------------------
\* Ajtai commitment scheme (commitment/commitment_scheme.rs) as a library:
\* one call per step, on a scheme with C rows and call.W columns.
MaxW == 4            \* largest witness length W tried
B == 2               \* DecompositionParams::B

CmErr(kind, args) == [tag |-> "Err", err |-> kind, args |-> args, matrix |-> <<>>]
CmPanic == [tag |-> "Panic", err |-> "", args |-> <<>>, matrix |-> <<>>]

\* index of the first row whose length is not W, 0 if there is none
RECURSIVE FirstBadRow(_, _, _)
FirstBadRow(matrix, W, i) ==
    IF i > Len(matrix) THEN 0
    ELSE IF Len(matrix[i]) # W THEN i
    ELSE FirstBadRow(matrix, W, i + 1)

\* the row loop of try_from
TryFromRows(matrix, W, bad) ==
    IF bad # 0
    THEN CmErr("WrongAjtaiMatrixDimensions", <<C, Len(matrix[bad]), C, W>>)
    ELSE [tag |-> "Ok", err |-> "", args |-> <<>>, matrix |-> matrix]

\* matrix[0] is read by the first condition when there are C rows, and by the
\* error value when there are not; on a matrix without rows that read aborts
try_from(matrix, W) ==
    IF matrix = <<>> THEN CmPanic
    ELSE IF Len(matrix) # C \/ Len(matrix[1]) # W
    THEN CmErr("WrongAjtaiMatrixDimensions", <<Len(matrix), Len(matrix[1]), C, W>>)
    ELSE TryFromRows(matrix, W, FirstBadRow(matrix, W, 1))

\* the rng: a stream of samples and the number of samples drawn so far
NextSample(rng) == rng.stream[rng.drawn + 1]

\* vec![vec![NTT::rand(rng); W]; C]: vec! evaluates its element once and clones it
rand(rng, W) ==
    [tag |-> "Ok", err |-> "", args |-> <<>>,
     matrix |-> [i \in 1..C |-> [j \in 1..W |-> NextSample(rng)]],
     rng |-> [rng EXCEPT !.drawn = @ + 1]]

\* coefficient form: the centred representative; Into<NTT> is crt
ToCR(x) == IF x > (Q - 1) \div 2 THEN x - Q ELSE x

\* remainder with the sign of the dividend, as % on signed integers
SRem(x, b) == IF x >= 0 THEN x % b ELSE -((-x) % b)

BalancedDigit(x, b) ==
    IF SRem(x, b) > b \div 2 THEN SRem(x, b) - b
    ELSE IF SRem(x, b) < -(b \div 2) THEN SRem(x, b) + b
    ELSE SRem(x, b)

\* balanced radix-b limbs of x, least significant first, padded to n limbs
RECURSIVE decompose_balanced(_, _, _)
decompose_balanced(x, b, n) ==
    IF n = 0 THEN <<>>
    ELSE <<BalancedDigit(x, b)>>
             \o decompose_balanced((x - BalancedDigit(x, b)) \div b, b, n - 1)

decompose_balanced_slice_polyring(f, b, n) ==
    [i \in 1..Len(f) |-> decompose_balanced(f[i], b, n)]

commit_coeff(matrix, W, f) ==
    IF Len(f) # W THEN WrongWitnessLength(Len(f), W)
    ELSE commit_ntt(matrix, W, [j \in 1..Len(f) |-> crt(f[j])])

decompose_and_commit_coeff(matrix, W, f) ==
    commit_coeff(matrix, W, Flatten(decompose_balanced_slice_polyring(f, B, L)))

IntoNTT(f) == [j \in 1..Len(f) |-> crt(f[j])]
IntoCR(w) == [j \in 1..Len(w) |-> ToCR(w[j])]

\* decompose_and_commit_ntt that commits to w itself
decompose_and_commit_ntt_plain(matrix, W, w) == commit_ntt(matrix, W, w)

decompose_and_commit_ntt(matrix, W, w) ==
    commit_ntt(matrix, W,
               IntoNTT(Flatten(decompose_balanced_slice_polyring(IntoCR(w), B, L))))

\* inputs of the calls
Vec(a, b, len) == [j \in 1..len |-> Norm(a + b * j)]
SeedMatrix(W, a) == [i \in 1..C |-> [j \in 1..W |-> Norm(a + i * j + j)]]
Widths == 1..MaxW
Lengths == 0..(MaxW + 1)
Schemes(W) == {generate_ajtai(W)} \cup {SeedMatrix(W, a) : a \in 0..MaxSeed}

\* matrices handed to try_from: well formed, without rows, with a row too many
\* or too few, with rows of the wrong length, with rows of different lengths
Ragged(W, r, len) == [i \in 1..C |-> IF i = r THEN Vec(1, 1, len) ELSE Vec(1, 1, W)]
MatricesFor(W) ==
    Schemes(W) \cup {<<>>}
        \cup { [i \in 1..rows |-> Vec(i, 1, cols)] :
                  rows \in 1..(C + 1), cols \in Lengths }
        \cup { Ragged(W, r, len) : r \in 1..C, len \in Lengths }

Streams == { [stream |-> Vec(a, b, C * MaxW), drawn |-> 0] : a \in 0..(Q - 1), b \in 0..2 }

\* sum_i rho_i * w_i, coordinate by coordinate
Combine(rho_s, ws, W) ==
    [j \in 1..W |-> SumSeq([i \in 1..Len(ws) |-> FMul(rho_s[i], ws[i][j])])]

SingleCalls(W) ==
    { [op |-> "commit_ntt", W |-> W, matrix |-> M, fs |-> <<Vec(a, b, len)>>,
       rho_s |-> <<>>] :
          M \in Schemes(W), a \in 0..MaxSeed, b \in 0..1, len \in Lengths }

\* two witnesses and their combination by rho_s, committed one after the other
CombinedCalls(W) ==
    { [op |-> "commit_ntt", W |-> W, matrix |-> M,
       fs |-> << Vec(a, 1, W), Vec(1, a, W),
                 Combine(<<r1, r2>>, <<Vec(a, 1, W), Vec(1, a, W)>>, W) >>,
       rho_s |-> <<r1, r2>>] :
          M \in Schemes(W), a \in 0..MaxSeed, r1 \in {0, 1, Q - 1, 3}, r2 \in {1, 2} }

CommitNttCalls == UNION { SingleCalls(W) \cup CombinedCalls(W) : W \in Widths }

OtherCommitCalls ==
    { [op |-> op, W |-> W, matrix |-> generate_ajtai(W),
       fs |-> <<IF op = "decompose_and_commit_ntt" THEN Vec(a, b, len)
                ELSE IntoCR(Vec(a, b, len))>>,
       rho_s |-> <<>>] :
          op \in {"commit_coeff", "decompose_and_commit_coeff",
                  "decompose_and_commit_ntt"},
          W \in Widths, a \in 0..MaxSeed, b \in 0..1, len \in Lengths }

TryFromCalls(W) == { [op |-> "try_from", W |-> W, matrix |-> M] : M \in MatricesFor(W) }

ConstructionCalls ==
    UNION { TryFromCalls(W) : W \in Widths }
        \cup { [op |-> "rand", W |-> W, rng |-> rng] : W \in Widths, rng \in Streams }

InitCM ==
    /\ pc = "cm_call"
    /\ call \in CommitNttCalls \cup OtherCommitCalls \cup ConstructionCalls
    /\ ret = <<>>
    /\ config = 0
    /\ ccs = NoCcs
    /\ poly = NoPoly
    /\ cm_i_s = <<>>
    /\ w_s = <<>>
    /\ mz_mles = <<>>
    /\ transcript = new(0)
    /\ v_transcript = new(0)
    /\ prove_out = NoOut
    /\ v_in = NoOut
    /\ verify_out = NoOut

\* one call returns: its result is appended to ret
Returned(res) ==
    /\ ret' = Append(ret, res)
    /\ pc' = pc
    /\ UNCHANGED <<call, session_vars>>

TryFrom ==
    /\ pc = "cm_call" /\ call.op = "try_from" /\ ret = <<>>
    /\ Returned(try_from(call.matrix, call.W))

Rand ==
    /\ pc = "cm_call" /\ call.op = "rand" /\ ret = <<>>
    /\ Returned(rand(call.rng, call.W))

\* the next witness of call.fs
NextF == call.fs[Len(ret) + 1]
Pending(op) == pc = "cm_call" /\ call.op = op /\ Len(ret) < Len(call.fs)

CommitNtt ==
    /\ Pending("commit_ntt")
    /\ Returned(commit_ntt(call.matrix, call.W, NextF))

CommitCoeff ==
    /\ Pending("commit_coeff")
    /\ Returned(commit_coeff(call.matrix, call.W, NextF))

DecomposeAndCommitCoeff ==
    /\ Pending("decompose_and_commit_coeff")
    /\ Returned(decompose_and_commit_coeff(call.matrix, call.W, NextF))

DecomposeAndCommitNtt ==
    /\ Pending("decompose_and_commit_ntt")
    /\ Returned(decompose_and_commit_ntt(call.matrix, call.W, NextF))

NextCM ==
    \/ TryFrom
    \/ Rand
    \/ CommitNtt
    \/ CommitCoeff
    \/ DecomposeAndCommitCoeff
    \/ DecomposeAndCommitNtt

SpecCM == InitCM /\ [][NextCM]_vars

-----------------------------------------------------------------------------
\* the values squeezed from a transcript, in order
RECURSIVE SqueezedValues(_)
SqueezedValues(log) ==
    IF log = <<>> THEN <<>>
    ELSE (IF Head(log).op = "squeeze" THEN <<Head(log).v>> ELSE <<>>)
             \o SqueezedValues(Tail(log))

\* C20: on a proof produced by prove_as_subprotocol and a transcript in the
\* prover's initial state, verify_as_subprotocol performs the prover's sequence
\* of absorbs and squeezes with the same values, so its challenges r_i are the
\* prover's, and the SubClaim point is the prover's randomness: nvars entries
\* in round order.
SumcheckVerifierMirrorsProver ==
    SCHonestProof
        => /\ v_transcript.log = transcript.log
           /\ v_transcript.st = transcript.st
           /\ SqueezedValues(v_transcript.log) = prove_out.randomness
           /\ verify_out.tag = "Ok"
                 => /\ verify_out.point = prove_out.randomness
                    /\ Len(verify_out.point) = poly.nvars

SumcheckVerifierMirrorsProverWitness ==
    /\ SCHonestProof
    /\ verify_out.tag = "Ok"
    /\ poly.nvars = 2
    /\ verify_out.point = prove_out.randomness
    /\ Len(verify_out.point) = 2
    /\ verify_out.point[1] # verify_out.point[2]
    /\ v_transcript.log = transcript.log

-----------------------------------------------------------------------------
\* Properties of the commitment scheme
CommitReturns(op) == pc = "cm_call" /\ call.op = op /\ ret # <<>>

\* the inner product of a row and a witness over the integers
RECURSIVE Dot(_, _)
Dot(row, f) ==
    IF row = <<>> \/ f = <<>> THEN 0
    ELSE Head(row) * Head(f) + Dot(Tail(row), Tail(f))

\* C11: on a C x W matrix M and a witness f of length W, commit_ntt returns
\* Ok(c) with exactly C coordinates and c[i] = sum_j M[i][j] * f[j] mod q; with
\* M[i][j] = i*W + j and f = (2, ..., 2), c[i] = W * (2*i*W + (W-1)) mod q.
CommitNttResult ==
    CommitReturns("commit_ntt")
        => \A k \in 1..Len(ret) :
              Len(call.fs[k]) = call.W
                  => /\ ret[k].tag = "Ok"
                     /\ Len(ret[k].cm) = C
                     /\ \A i \in 1..C :
                           ret[k].cm[i] = Dot(call.matrix[i], call.fs[k]) % Q
                     /\ (call.matrix = generate_ajtai(call.W)
                             /\ call.fs[k] = [j \in 1..call.W |-> 2])
                          => \A i \in 1..C :
                                ret[k].cm[i]
                                  = (call.W * (2 * (i - 1) * call.W + (call.W - 1))) % Q

CommitNttResultWitness ==
    /\ CommitReturns("commit_ntt")
    /\ call.W = 3
    /\ call.matrix = generate_ajtai(3)
    /\ call.fs[1] = <<2, 2, 2>>
    /\ ret[1].tag = "Ok"
    /\ ret[1].cm = <<6, 3>>

\* C12: commit_ntt(sum_i rho_i * w_i) = sum_i rho_i * commit_ntt(w_i),
\* coordinate by coordinate.
CommitmentHomomorphism ==
    (CommitReturns("commit_ntt") /\ call.rho_s # <<>> /\ Len(ret) = Len(call.fs))
        => /\ \A k \in 1..Len(ret) : ret[k].tag = "Ok"
           /\ \A i \in 1..C :
                 ret[3].cm[i] = FAdd(FMul(call.rho_s[1], ret[1].cm[i]),
                                     FMul(call.rho_s[2], ret[2].cm[i]))

CommitmentHomomorphismWitness ==
    /\ CommitReturns("commit_ntt")
    /\ call.rho_s = <<3, 2>>
    /\ Len(ret) = 3
    /\ call.W >= 2
    /\ ret[1].cm # ret[2].cm
    /\ ret[3].cm[1] = FAdd(FMul(3, ret[1].cm[1]), FMul(2, ret[2].cm[1]))
    /\ ret[3].cm # <<0, 0>>

IsWrongWitnessLength(res) ==
    res.tag = "Err" /\ res.err = "WrongWitnessLength" /\ res.cm = <<>>

\* C13: commit_ntt and commit_coeff return Err(WrongWitnessLength(f.len(), W))
\* exactly when f.len() # W; the decompose_and_commit operations return
\* Err(WrongWitnessLength) exactly when their input length times L is not W;
\* every other call returns Ok, and an Err carries no commitment.
WitnessLengthErrors ==
    /\ (CommitReturns("commit_ntt") \/ CommitReturns("commit_coeff"))
          => \A k \in 1..Len(ret) :
                IF Len(call.fs[k]) # call.W
                THEN IsWrongWitnessLength(ret[k])
                         /\ ret[k].args = <<Len(call.fs[k]), call.W>>
                ELSE ret[k].tag = "Ok" /\ Len(ret[k].cm) = C
    /\ (CommitReturns("decompose_and_commit_coeff")
           \/ CommitReturns("decompose_and_commit_ntt"))
          => \A k \in 1..Len(ret) :
                IF Len(call.fs[k]) * L # call.W
                THEN IsWrongWitnessLength(ret[k])
                ELSE ret[k].tag = "Ok" /\ Len(ret[k].cm) = C

WitnessLengthErrorsWitness ==
    /\ CommitReturns("decompose_and_commit_ntt")
    /\ Len(call.fs[1]) = call.W
    /\ IsWrongWitnessLength(ret[1])
    /\ ret[1].args = <<call.W * L, call.W>>

WellFormed(matrix, W) ==
    Len(matrix) = C /\ \A i \in 1..Len(matrix) : Len(matrix[i]) = W

\* C14 as stated: try_from returns Ok exactly when the matrix has C rows of W
\* entries and Err(WrongAjtaiMatrixDimensions) otherwise, and never aborts, a
\* matrix without rows included.
TryFromValidates ==
    CommitReturns("try_from")
        => IF WellFormed(call.matrix, call.W)
           THEN ret[1].tag = "Ok" /\ ret[1].matrix = call.matrix
           ELSE ret[1].tag = "Err" /\ ret[1].err = "WrongAjtaiMatrixDimensions"

\* C15 as stated: rand draws each of the C * W entries of the matrix from the
\* rng by its own sample.
RandSamplesEveryEntry ==
    CommitReturns("rand") => ret[1].rng.drawn = C * call.W

-----------------------------------------------------------------------------
\* Challenges: PBBCyclotomicRing::get_challenge_set (rings/pbb.rs) and the
\* squeezes of a transcript, each run twice on the same inputs.
RandomBytesLen == 15     \* let mut random_bytes = [0u8; 15]
MaxAbsorbs == 2          \* longest absorb sequence fed to a transcript

\* (byte >> n) & 1
ShiftedBit(byte, n) == (byte \div Pow2(n)) % 2

\* get_challenge_set with the bits of every byte taken lowest first
get_challenge_set_lsb_first(random_bytes) ==
    Flatten([k \in 1..Len(random_bytes) |->
                [i \in 1..8 |-> FromInt(ShiftedBit(random_bytes[k], i - 1))]])

\* the body of get_challenge_set on the bytes that rng.fill produced
get_challenge_set(random_bytes) ==
    Flatten([k \in 1..Len(random_bytes) |->
                [i \in 1..8 |-> FromInt(ShiftedBit(random_bytes[k], 7 - (i - 1)))]])

\* what rand::thread_rng() may fill random_bytes with: any byte at one position
\* over a constant background on the first call, fewer fillings after it
FirstFills ==
    { [k \in 1..RandomBytesLen |-> IF k = pos THEN a ELSE b] :
         a \in 0..255, b \in {0, 255}, pos \in {1, 8, RandomBytesLen} }
LaterFills(first) ==
    { [k \in 1..RandomBytesLen |-> b] : b \in {0, 255} } \cup {first}
ThreadRngFills == IF ret = <<>> THEN FirstFills ELSE LaterFills(ret[1].random_bytes)

\* the challenges a transcript of this configuration emits after the absorbs
EmittedChallenges(t) ==
    [challenges |-> get_challenges(t, 2).cs,
     short |-> get_small_challenges(get_challenges(t, 2).t, K).cs]

AbsorbSequences ==
    UNION { [1..n -> 0..(Q - 1)] : n \in 0..MaxAbsorbs }

ChallengeCalls ==
    { [op |-> "get_challenge_set"] }
    \cup { [op |-> "squeeze", config |-> cfg, absorbs |-> a] :
              cfg \in Configs, a \in AbsorbSequences }

InitCH ==
    /\ pc = "ch_call"
    /\ call \in ChallengeCalls
    /\ ret = <<>>
    /\ config = 0
    /\ ccs = NoCcs
    /\ poly = NoPoly
    /\ cm_i_s = <<>>
    /\ w_s = <<>>
    /\ mz_mles = <<>>
    /\ transcript = new(0)
    /\ v_transcript = new(0)
    /\ prove_out = NoOut
    /\ v_in = NoOut
    /\ verify_out = NoOut

\* one execution of get_challenge_set; the bytes come from the thread's rng
GetChallengeSet ==
    /\ pc = "ch_call" /\ call.op = "get_challenge_set" /\ Len(ret) < 2
    /\ \E random_bytes \in ThreadRngFills :
          ret' = Append(ret, [random_bytes |-> random_bytes,
                              bits |-> get_challenge_set(random_bytes)])
    /\ UNCHANGED <<pc, call, session_vars>>

\* one execution of a transcript: new, the absorbs, then the squeezes
SqueezeChallenges ==
    /\ pc = "ch_call" /\ call.op = "squeeze" /\ Len(ret) < 2
    /\ ret' = Append(ret, EmittedChallenges(absorb_slice(new(call.config), call.absorbs)))
    /\ UNCHANGED <<pc, call, session_vars>>

NextCH == GetChallengeSet \/ SqueezeChallenges

SpecCH == InitCH /\ [][NextCH]_vars

\* C16 as stated: two executions with the same configuration and the same
\* absorb sequence obtain the same challenges, the short challenges of
\* get_challenge_set included.
ChallengesDeterministic ==
    (pc = "ch_call" /\ Len(ret) = 2) => ret[1] = ret[2]

\* the byte whose bits, highest first, are the eight coefficients from 8k
ByteAt(bits, k) ==
    SumSeq0([i \in 1..8 |-> bits[8 * (k - 1) + i] * Pow2(8 - i)])

\* C17: get_challenge_set turns the 15 bytes into exactly 120 coefficients, each
\* 0 or 1, and the coefficient at position 8k+i is bit (7-i) of byte k: bit 7 of
\* byte k is at 8k+0 and bit 0 at 8k+7.
ChallengeBitLayout ==
    (pc = "ch_call" /\ call.op = "get_challenge_set")
        => \A e \in 1..Len(ret) :
              /\ Len(ret[e].bits) = 120
              /\ \A p \in 1..120 : ret[e].bits[p] \in {0, 1}
              /\ \A k \in 1..RandomBytesLen :
                    /\ ByteAt(ret[e].bits, k) = ret[e].random_bytes[k]
                    /\ ret[e].bits[8 * (k - 1) + 1] = 1 <=> ret[e].random_bytes[k] >= 128
                    /\ ret[e].bits[8 * (k - 1) + 8] = ret[e].random_bytes[k] % 2

ChallengeBitLayoutWitness ==
    /\ pc = "ch_call" /\ call.op = "get_challenge_set" /\ ret # <<>>
    /\ ret[1].random_bytes[8] = 165
    /\ SubSeq(ret[1].bits, 57, 64) = <<1, 0, 1, 0, 0, 1, 0, 1>>
    /\ ret[1].random_bytes[1] = 0
    /\ Len(ret[1].bits) = 120

-----------------------------------------------------------------------------
\* sanity_check (nifs/folding.rs) as a function of the CCS fields
MaxL == 3            \* largest DecompositionParams::L tried

ShapeCalls ==
    { [op |-> "sanity_check", m |-> m, n |-> n, l |-> l, L |-> Lp,
       overflow_checks |-> oc] :
          m \in 0..UsizeMax, n \in 0..UsizeMax, l \in 0..1, Lp \in 1..MaxL,
          oc \in BOOLEAN }

InitSH ==
    /\ pc = "sh_call"
    /\ call \in ShapeCalls
    /\ ret = <<>>
    /\ config = 0
    /\ ccs = NoCcs
    /\ poly = NoPoly
    /\ cm_i_s = <<>>
    /\ w_s = <<>>
    /\ mz_mles = <<>>
    /\ transcript = new(0)
    /\ v_transcript = new(0)
    /\ prove_out = NoOut
    /\ v_in = NoOut
    /\ verify_out = NoOut

SanityCheck ==
    /\ pc = "sh_call" /\ call.op = "sanity_check" /\ ret = <<>>
    /\ ret' = <<sanity_check_on(call.m, call.n, call.l, call.L, call.overflow_checks)>>
    /\ UNCHANGED <<pc, call, session_vars>>

NextSH == SanityCheck

SpecSH == InitSH /\ [][NextSH]_vars

ShapeChecked == pc = "sh_call" /\ ret # <<>> /\ call.n >= call.l + 1
IsPowerOfTwo(m) == \E e \in 0..UsizeBits : m = Pow2(e)
WitnessPart == (call.n - call.l - 1) * call.L

\* what C19 says sanity_check returns
ShapeVerdict ==
    IF IsPowerOfTwo(call.m) /\ WitnessPart <= call.m
    THEN ret[1].tag = "Ok"
    ELSE ret[1] = InvalidSizeBounds(call.m, call.n, call.L)

-----------------------------------------------------------------------------
\* Properties of the folded witness and of the folded public input.

\* the short challenges squeezed from a transcript, in order
RECURSIVE ShortChallenges(_)
ShortChallenges(log) ==
    IF log = <<>> THEN <<>>
    ELSE (IF Head(log).op = "squeeze_short" THEN <<Head(log).v>> ELSE <<>>)
             \o ShortChallenges(Tail(log))

\* sum over every i in 1..Len(ws) of crt(rho_i) * ws[i].f, of the length of ws[1].f
CombinationOfAll(rho_s, ws) ==
    [j \in 1..Len(ws[1].f) |->
        SumSeq([i \in 1..Len(ws) |-> FMul(crt(rho_s[i]), ws[i].f[j])])]

\* C21: the witness returned by prove has f_0 = sum_i crt(rho_i) * w_s[i].f over
\* every one of the 2K input witnesses, rho_s being the challenges of step 6:
\* there is one challenge for each witness and none is left out of the sum.
FoldedWitnessCoversAllInputs ==
    (pc # "init" /\ prove_out.tag = "Ok")
        => /\ Len(ShortChallenges(transcript.log)) = Len(w_s)
           /\ prove_out.w_0.f = CombinationOfAll(ShortChallenges(transcript.log), w_s)

\* what prove returns instead: the combination of the first K witnesses only
FoldedWitnessCoversFirstK ==
    (pc # "init" /\ prove_out.tag = "Ok")
        => /\ Len(ShortChallenges(transcript.log)) = K
           /\ Len(w_s) = 2 * K
           /\ prove_out.w_0.f = CombinationOfAll(ShortChallenges(transcript.log),
                                                 SubSeq(w_s, 1, K))

\* the vector x_0 of step 6, from the rho challenges a transcript has squeezed
X0(log, instances) ==
    compute_v0_u0_x0_cm_0(ShortChallenges(log), <<>>, instances, <<>>, ccs).x_0

\* the rho challenges have been squeezed: step 6 takes place
RhosSqueezed(log) == Len(ShortChallenges(log)) = K

SplitOf(out, x_0) ==
    IF x_0 = <<>> THEN out.tag = "Err" /\ out.err = "IncorrectLength"
    ELSE /\ out.tag = "Ok"
         /\ out.lcccs.h = x_0[Len(x_0)]
         /\ Len(out.lcccs.x_w) = Len(x_0) - 1
         /\ out.lcccs.x_w \o <<out.lcccs.h>> = x_0

\* C22: when prove or verify gets as far as x_0, a non-empty x_0 is split into
\* x_w (all but the last element) and h (the last element) of the returned
\* LCCCS, and an empty x_0 makes the call return Err(IncorrectLength) without
\* reaching prepare_public_output.
OutputSplit ==
    /\ (pc # "init" /\ RhosSqueezed(transcript.log))
          => SplitOf(prove_out, X0(transcript.log, cm_i_s))
    /\ (Verified /\ RhosSqueezed(v_transcript.log))
          => SplitOf(verify_out, X0(v_transcript.log, v_in.cm_i_s))

OutputSplitWitness ==
    /\ Verified
    /\ Len(prove_out.lcccs.x_w) = MaxPublic - 1
    /\ prove_out.lcccs.x_w # <<prove_out.lcccs.h>>
    /\ v_in.kind = "no_x"
    /\ RhosSqueezed(v_transcript.log)
    /\ verify_out.tag = "Err" /\ verify_out.err = "IncorrectLength"

-----------------------------------------------------------------------------
\* The helpers of the folding prover and verifier as a library: each behaviour
\* is one call of one helper on arguments drawn from the sets below.

\* the largest number of MLEs of an instance
MaxMles == 3

\* n instances with cnt[i] tables each, all over the same s variables
MzVec(n, s, cnt, seed) == [i \in 1..n |-> [j \in 1..cnt[i] |-> Table(seed + i, j, s)]]

\* calculate_challenged_mz_mle on zero to 2K instances with 0..MaxMles tables each
\* and zero to 2K challenges, not always as many of each
HornerCall ==
    \E n \in 0..(2 * K), k \in 0..(2 * K), s \in 1..MaxVars, seed \in 0..MaxSeed :
       \E cnt \in [1..n -> 0..MaxMles], zeta_s \in [1..k -> {0, 1, 2, Q - 1}] :
          call = [op |-> "calculate_challenged_mz_mle",
                  Mz |-> MzVec(n, s, cnt, seed), zeta_s |-> zeta_s]

\* an instance with lv entries in v and lu entries in u
ClaimInstance(seed, i, lv, lu, other) ==
    [r |-> <<Norm(seed + other)>>, v |-> [j \in 1..lv |-> Norm(seed + i + j)],
     cm |-> [k \in 1..C |-> Norm(other + k)],
     u |-> [j \in 1..lu |-> Norm(2 * seed + i * j + 1)],
     x_w |-> <<Norm(3 * other)>>, h |-> Norm(1 + other)]

\* calculate_claims on zero to 2K instances and zero to 2K challenges of each kind
ClaimCall ==
    \E n \in 0..(2 * K), k \in 0..(2 * K), seed \in 0..MaxSeed, lv \in 0..MaxMles,
       lu \in 0..MaxMles, other \in 0..1 :
       \E alpha_s \in [1..k -> {0, 2, Q - 1}], zeta_s \in [1..k -> {0, 2, Q - 1}] :
          call = [op |-> "calculate_claims", alpha_s |-> alpha_s, zeta_s |-> zeta_s,
                  cm_i_s |-> [i \in 1..n |-> ClaimInstance(seed, i, lv, lu, other)]]

\* the largest extension degree and the largest B_SMALL of a comb_fn call
MaxE == 2
MaxBSmall == 3

\* the evaluations comb_fn is handed: eq and g pairs, eq(beta), then k*e values of
\* f_hat MLEs that run through the ring, zero and the roots b and -b included
CombVals(h, eq_b, a, step, n) ==
    <<Norm(h + 2), Norm(3 * h + 1), Norm(h), 3, eq_b>>
        \o [i \in 1..n |-> Norm(a + step * i)]

CombCall ==
    \E k \in 1..(2 * K), e \in 1..MaxE, b_small \in 2..MaxBSmall, h \in 0..1,
       eq_b \in {0, 1, 3}, a \in 0..(Q - 1), step \in 0..(Q - 1) :
       \E mu_s \in [1..k -> {0, 2, 3}] :
          call = [op |-> "comb_fn", vals |-> CombVals(h, eq_b, a, step, k * e),
                  mu_s |-> mu_s, e |-> e, b_small |-> b_small]

InitHelpers ==
    /\ pc = "helper_call"
    /\ (HornerCall \/ ClaimCall \/ CombCall)
    /\ ret = <<>>
    /\ config = 0
    /\ ccs = NoCcs
    /\ poly = NoPoly
    /\ cm_i_s = <<>>
    /\ w_s = <<>>
    /\ mz_mles = <<>>
    /\ transcript = new(0)
    /\ v_transcript = new(0)
    /\ prove_out = NoOut
    /\ v_in = NoOut
    /\ verify_out = NoOut

CalculateChallengedMzMle ==
    /\ pc = "helper_call" /\ call.op = "calculate_challenged_mz_mle" /\ ret = <<>>
    /\ ret' = <<calculate_challenged_mz_mle(call.Mz, call.zeta_s)>>
    /\ UNCHANGED <<pc, call, session_vars>>

\* the claims of verify and the claimed sum it hands to verify_sumcheck_proof
ClaimsAndTotal(claims) ==
    [claim_g1 |-> claims.claim_g1, claim_g3 |-> claims.claim_g3,
     total_claim |-> TotalClaim(claims)]

CalculateClaims ==
    /\ pc = "helper_call" /\ call.op = "calculate_claims" /\ ret = <<>>
    /\ ret' = <<ClaimsAndTotal(calculate_claims(call.alpha_s, call.zeta_s, call.cm_i_s))>>
    /\ UNCHANGED <<pc, call, session_vars>>

CombFn ==
    /\ pc = "helper_call" /\ call.op = "comb_fn" /\ ret = <<>>
    /\ ret' = <<comb_fn_on(call.vals, call.mu_s, call.e, call.b_small)>>
    /\ UNCHANGED <<pc, call, session_vars>>

NextHelpers == CalculateChallengedMzMle \/ CalculateClaims \/ CombFn

SpecHelpers == InitHelpers /\ [][NextHelpers]_vars

HelperReturned(op) == pc = "helper_call" /\ call.op = op /\ ret # <<>>

\* the value of an MLE at a point of the hypercube; the zero MLE is zero everywhere
ValueAt(mle, x) == IF mle = MleZero THEN 0 ELSE mle[x]

\* the number of variables of the tables of a call (0 when there is no table)
TablesOf(Mz) == Flatten(Mz)
PointsOf(Mz) == IF TablesOf(Mz) = <<>> THEN 1..1 ELSE 1..Len(TablesOf(Mz)[1])

\* sum over the paired instances i and over j of zeta_i^j * Mz[i][j] at the point
\* x (j counted from 1, so that the first MLE is weighted by zeta_i)
Precombination(Mz, zeta_s, x) ==
    SumSeq([i \in 1..Min(Len(zeta_s), Len(Mz)) |->
               SumSeq([j \in 1..Len(Mz[i]) |-> FMul(FPow(zeta_s[i], j), Mz[i][j][x])])])

\* C23: calculate_challenged_mz_mle(Mz, zeta) is, at every point, the sum over
\* the paired instances i of sum_j zeta_i^(j+1) * Mz[i][j] (j from 0): the first
\* MLE of an instance is weighted by zeta_i and the last one by zeta_i to the
\* number of MLEs, for any number of MLEs per instance, zero included.
HornerPrecombination ==
    HelperReturned("calculate_challenged_mz_mle")
        => \A x \in PointsOf(call.Mz) :
              ValueAt(ret[1], x) = Precombination(call.Mz, call.zeta_s, x)

HornerPrecombinationWitness ==
    /\ HelperReturned("calculate_challenged_mz_mle")
    /\ Len(call.zeta_s) = 2 * K /\ Len(call.Mz) = 2 * K
    /\ Len(call.Mz[1]) = MaxMles /\ Len(call.Mz[2]) = 0
    /\ call.zeta_s[1] = 2
    /\ ret[1] # MleZero
    /\ \E x \in PointsOf(call.Mz) : ret[1][x] # 0

\* sum over the paired instances i and over j >= 1 of c_i^j * rows[i][j-1]
ClaimOf(cs, rows) ==
    SumSeq([i \in 1..Min(Len(cs), Len(rows)) |->
               SumSeq([j \in 1..Len(rows[i]) |-> FMul(FPow(cs[i], j), rows[i][j])])])

VsOf(instances) == [i \in 1..Len(instances) |-> instances[i].v]
UsOf(instances) == [i \in 1..Len(instances) |-> instances[i].u]

\* C24: calculate_claims returns claim_g1 = sum_i sum_{j>=1} alpha_i^j * v_i[j-1]
\* and claim_g3 = sum_i sum_{j>=1} zeta_i^j * u_i[j-1], functions of the fields v
\* and u of the instances only, with the first entry weighted by the challenge
\* itself; the sumcheck verifier is handed claim_g1 + claim_g3.
ClaimRecomputation ==
    HelperReturned("calculate_claims")
        => /\ ret[1].claim_g1 = ClaimOf(call.alpha_s, VsOf(call.cm_i_s))
           /\ ret[1].claim_g3 = ClaimOf(call.zeta_s, UsOf(call.cm_i_s))
           /\ ret[1].total_claim
                 = FAdd(ClaimOf(call.alpha_s, VsOf(call.cm_i_s)),
                        ClaimOf(call.zeta_s, UsOf(call.cm_i_s)))

ClaimRecomputationWitness ==
    /\ HelperReturned("calculate_claims")
    /\ Len(call.cm_i_s) = 2 * K /\ Len(call.alpha_s) = 2 * K
    /\ Len(call.cm_i_s[1].v) = MaxMles /\ Len(call.cm_i_s[1].u) = MaxMles
    /\ call.alpha_s[1] = 2 /\ call.zeta_s[1] = Q - 1
    /\ ret[1].claim_g1 # 0 /\ ret[1].claim_g3 # 0
    /\ ret[1].claim_g1 # SumSeq(Flatten(VsOf(call.cm_i_s)))
    /\ ret[1].total_claim # ret[1].claim_g1

\* the f_hat evaluation of group k and degree d (both 0-based) among vals
FHatVal(k, d) == call.vals[5 + k * call.e + d + 1]

\* vals[4] * prod_{b = 1..b_small-1} (f^2 - b^2) * f, every factor multiplied out
RangeProduct(eq_b, f, b_small) ==
    FMul(FMul(eq_b, ProdSeq([b \in 1..(b_small - 1) |->
                                FSub(FMul(f, f), FromInt(b * b))])), f)

\* the value of comb_fn without its early exits
CombValue ==
    FAdd(FAdd(FMul(call.vals[1], call.vals[2]), FMul(call.vals[3], call.vals[4])),
         SumSeq([k \in 1..Len(call.mu_s) |->
             SumSeq([d \in 1..call.e |->
                 FMul(FPow(call.mu_s[k], d),
                      RangeProduct(call.vals[5], FHatVal(k - 1, d - 1),
                                   call.b_small))])]))

\* C25: comb_fn returns vals[0]*vals[1] + vals[2]*vals[3] + sum over k and d of
\* mu_k^(d+1) * vals[4] * prod_b (f^2 - b^2) * f with f = vals[5 + k*E + d]: the
\* early exits taken on f = 0 and on a zero factor leave the value unchanged.
CombFnShortCircuits == HelperReturned("comb_fn") => ret[1] = CombValue

\* a call that takes both exits and still adds a non-zero term
CombFnShortCircuitsWitness ==
    /\ HelperReturned("comb_fn")
    /\ Len(call.mu_s) = 2 /\ call.e = MaxE /\ call.b_small = MaxBSmall
    /\ call.mu_s[1] = 2 /\ call.mu_s[2] = 3 /\ call.vals[5] # 0
    /\ FHatVal(0, 0) = 0
    /\ FHatVal(0, 1) \notin {0, 1, 2, Q - 1, Q - 2}
    /\ FHatVal(1, 1) \in {2, Q - 2}
    /\ ret[1] # FAdd(FMul(call.vals[1], call.vals[2]), FMul(call.vals[3], call.vals[4]))

-----------------------------------------------------------------------------
\* Properties of the witnesses handed to prove.

\* prove got past its two precondition checks
ProveStarted == pc # "init" /\ sanity_check(ccs) /\ Len(cm_i_s) = 2 * K

\* the tables of witness i were taken once, after the last of the alpha, beta,
\* zeta, mu squeezes and before the first operation of the sumcheck
TakenOnce(w, log, s) ==
    /\ w.taken /\ w.takes = 1 /\ w.f_hat = <<>>
    /\ w.taken_at = AfterChallenges(s)
    /\ \A j \in 1..w.taken_at : log[j].op = "squeeze"
    /\ log[w.taken_at + 1] = [op |-> "absorb", v |-> s]

\* C26: during prove, take_f_hat is invoked exactly once on each input witness,
\* after the alpha/beta/zeta/mu squeeze and before the sumcheck; no second take
\* is attempted, theta_s holds the evaluations of the tables that were taken,
\* and the folded witness is computed from the fields f of the input witnesses.
WitnessConsumption ==
    ProveStarted
        => /\ \A i \in 1..Len(w_s) : TakenOnce(w_s[i], transcript.log, ccs.s)
           /\ prove_out.tag = "Ok"
                 => /\ \A i \in 1..Len(w_s) :
                          prove_out.proof.theta_s[i]
                              = evaluate_mles(<<w_s[i].f>>, prove_out.lcccs.r)
                    /\ prove_out.w_0.f = compute_f_0(ShortChallenges(transcript.log), w_s)
                    /\ prove_out.w_0.takes = 0

WitnessConsumptionWitness ==
    /\ ProveStarted
    /\ prove_out.tag = "Ok"
    /\ Len(w_s) = 2 * K
    /\ \A i \in 1..Len(w_s) : w_s[i].takes = 1 /\ w_s[i].taken_at > 0
    /\ \E i \in 1..Len(w_s) : \E x \in 1..Len(w_s[i].f) : w_s[i].f[x] # 0

-----------------------------------------------------------------------------
\* The prover's parallel regions (feature "parallel"): setup_f_hat_mles, get_thetas
\* and get_etas hand one task per witness or per row to the thread pool; a task
\* works on its own element only, collect() stores its result at the index of
\* the element and returns when every task has finished. The prover thread then
\* absorbs the rows. call keeps the arguments; prove_out holds the state of the
\* tasks of the region that is running and the vectors collected so far.

\* the largest number of rows handed to a region
MaxRows == 3

Idle(n) == [i \in 1..n |-> "idle"]
Slots(n) == [i \in 1..n |-> <<>>]

\* a collection that appends results in the order in which the tasks finish
CollectAsFinished(slots, free, i, v) == [slots EXCEPT ![free] = v]

\* collect() of an indexed parallel iterator: the result of task i is item i
Collect(slots, free, i, v) == [slots EXCEPT ![i] = v]

\* the number of tasks of a region that have finished
RECURSIVE Finished(_)
Finished(status) ==
    IF status = <<>> THEN 0
    ELSE (IF Head(status) = "done" THEN 1 ELSE 0) + Finished(Tail(status))

InitPar ==
    /\ pc = "setup_f_hat_mles"
    /\ config \in Configs
    /\ transcript = new(config)
    /\ \E n \in 2..MaxRows, s \in 1..MaxVars, seed \in 0..MaxSeed :
          /\ w_s = [i \in 1..n |-> from_f(WitnessF(seed, i, s))]
          /\ mz_mles = [i \in 1..n |-> MzTables(seed, i, s)]
          /\ call = [op |-> "parallel", n |-> n, r_0 |-> Point(seed, config, s),
                     w_s |-> [i \in 1..n |-> from_f(WitnessF(seed, i, s))]]
          /\ prove_out = [tag |-> "par", status |-> Idle(n), f_hat_mles |-> Slots(n),
                          theta_s |-> Slots(n), eta_s |-> Slots(n), absorbed |-> 0]
    /\ ret = <<>>
    /\ ccs = NoCcs
    /\ poly = NoPoly
    /\ cm_i_s = <<>>
    /\ v_transcript = new(0)
    /\ v_in = NoOut
    /\ verify_out = NoOut

Regions == {"setup_f_hat_mles", "get_thetas", "get_etas"}

\* a thread of the pool picks up task i of the running region
StartTask(i) ==
    /\ pc \in Regions
    /\ prove_out.status[i] = "idle"
    /\ prove_out' = [prove_out EXCEPT !.status[i] = "running"]
    /\ UNCHANGED <<pc, config, ccs, cm_i_s, w_s, mz_mles, poly, transcript,
                   v_transcript, v_in, verify_out, lib_vars>>

\* |w| w.take_f_hat() on witness i
FinishTake(i) ==
    /\ pc = "setup_f_hat_mles"
    /\ prove_out.status[i] = "running"
    /\ w_s' = [w_s EXCEPT ![i] = take_f_hat(w_s[i], Len(transcript.log)).w]
    /\ prove_out' = [prove_out EXCEPT
                        !.status[i] = "done",
                        !.f_hat_mles = Collect(@, Finished(prove_out.status) + 1, i,
                                               take_f_hat(w_s[i], Len(transcript.log)).f_hat)]
    /\ UNCHANGED <<pc, config, ccs, cm_i_s, mz_mles, poly, transcript, v_transcript,
                   v_in, verify_out, lib_vars>>

\* |f_hat_row| evaluate_mles(f_hat_row, r_0) on row i
FinishTheta(i) ==
    /\ pc = "get_thetas"
    /\ prove_out.status[i] = "running"
    /\ prove_out' = [prove_out EXCEPT
                        !.status[i] = "done",
                        !.theta_s = Collect(@, Finished(prove_out.status) + 1, i,
                                            evaluate_mles(prove_out.f_hat_mles[i], call.r_0))]
    /\ UNCHANGED <<pc, config, ccs, cm_i_s, w_s, mz_mles, poly, transcript,
                   v_transcript, v_in, verify_out, lib_vars>>

\* |Mz_mles| evaluate_mles(Mz_mles, r_0) on row i
FinishEta(i) ==
    /\ pc = "get_etas"
    /\ prove_out.status[i] = "running"
    /\ prove_out' = [prove_out EXCEPT
                        !.status[i] = "done",
                        !.eta_s = Collect(@, Finished(prove_out.status) + 1, i,
                                          evaluate_mles(mz_mles[i], call.r_0))]
    /\ UNCHANGED <<pc, config, ccs, cm_i_s, w_s, mz_mles, poly, transcript,
                   v_transcript, v_in, verify_out, lib_vars>>

NextRegion(region) ==
    IF region = "setup_f_hat_mles" THEN "get_thetas"
    ELSE IF region = "get_thetas" THEN "get_etas"
    ELSE "absorb_thetas"

\* collect() returns on the prover thread once every task of the region is done
Join ==
    /\ pc \in Regions
    /\ \A i \in 1..call.n : prove_out.status[i] = "done"
    /\ pc' = NextRegion(pc)
    /\ prove_out' = [prove_out EXCEPT !.status = Idle(call.n)]
    /\ UNCHANGED <<config, ccs, cm_i_s, w_s, mz_mles, poly, transcript, v_transcript,
                   v_in, verify_out, lib_vars>>

\* theta_s.iter().for_each(|thetas| transcript.absorb_slice(thetas)), one row
AbsorbThetas ==
    /\ pc = "absorb_thetas"
    /\ transcript' = absorb_slice(transcript, prove_out.theta_s[prove_out.absorbed + 1])
    /\ prove_out' = [prove_out EXCEPT
                        !.absorbed = IF @ + 1 = call.n THEN 0 ELSE @ + 1]
    /\ pc' = IF prove_out.absorbed + 1 = call.n THEN "absorb_etas" ELSE pc
    /\ UNCHANGED <<config, ccs, cm_i_s, w_s, mz_mles, poly, v_transcript, v_in,
                   verify_out, lib_vars>>

\* eta_s.iter().for_each(|etas| transcript.absorb_slice(etas)), one row
AbsorbEtas ==
    /\ pc = "absorb_etas"
    /\ transcript' = absorb_slice(transcript, prove_out.eta_s[prove_out.absorbed + 1])
    /\ prove_out' = [prove_out EXCEPT
                        !.absorbed = IF @ + 1 = call.n THEN 0 ELSE @ + 1]
    /\ pc' = IF prove_out.absorbed + 1 = call.n THEN "absorbed" ELSE pc
    /\ UNCHANGED <<config, ccs, cm_i_s, w_s, mz_mles, poly, v_transcript, v_in,
                   verify_out, lib_vars>>

NextPar ==
    \/ \E i \in 1..call.n : StartTask(i)
    \/ \E i \in 1..call.n : FinishTake(i)
    \/ \E i \in 1..call.n : FinishTheta(i)
    \/ \E i \in 1..call.n : FinishEta(i)
    \/ Join
    \/ AbsorbThetas
    \/ AbsorbEtas

SpecPar == InitPar /\ [][NextPar]_vars

\* what the sequential execution computes from the arguments
SeqFHat == setup_f_hat_mles(call.w_s, 0).mles
SeqThetas == get_thetas(SeqFHat, call.r_0)
SeqEtas == get_etas(mz_mles, call.r_0)

\* task i of the given region has stored its result
Stored(region, i) ==
    \/ pc = region /\ prove_out.status[i] = "done"
    \/ pc \notin Regions
    \/ region = "setup_f_hat_mles" /\ pc # region
    \/ region = "get_thetas" /\ pc = "get_etas"

\* C27: whatever the interleaving of the parallel tasks, f_hat_mles[i] is the
\* table of witness i and theta_s[i], eta_s[i] are the evaluations of row i, as
\* in the sequential execution; the transcript is untouched until every row has
\* been evaluated, and the prover thread then absorbs the rows of theta_s in
\* order, then those of eta_s, ending with the transcript of the sequential run.
ParallelUnobservable ==
    /\ \A i \in 1..call.n :
          /\ Stored("setup_f_hat_mles", i) => prove_out.f_hat_mles[i] = SeqFHat[i]
          /\ Stored("get_thetas", i) => prove_out.theta_s[i] = SeqThetas[i]
          /\ Stored("get_etas", i) => prove_out.eta_s[i] = SeqEtas[i]
          /\ Stored("setup_f_hat_mles", i) => w_s[i].takes = 1 /\ w_s[i].f = call.w_s[i].f
    /\ pc \in Regions => transcript = new(config)
    /\ pc = "absorb_thetas"
          => transcript = AbsorbRows(new(config), SubSeq(SeqThetas, 1, prove_out.absorbed))
    /\ pc = "absorb_etas"
          => transcript = AbsorbRows(AbsorbRows(new(config), SeqThetas),
                                     SubSeq(SeqEtas, 1, prove_out.absorbed))
    /\ pc = "absorbed" => transcript = AbsorbThetaEta(new(config), SeqThetas, SeqEtas)

\* the last task of a region finished first, and the rows differ
ParallelUnobservableWitness ==
    /\ pc = "get_thetas"
    /\ prove_out.status[call.n] = "done"
    /\ prove_out.status[1] = "running"
    /\ call.n = MaxRows
    /\ SeqThetas[1] # SeqThetas[call.n]
    /\ prove_out.theta_s[call.n] = SeqThetas[call.n]

====
